---- MODULE Spec2Model ----
(***************************************************************************)
(* Location and weather acquisition of the dashboard: the useAppLocation   *)
(* hook (getLocation, fetchLocationName) and the useWeather hook           *)
(* (fetchWeather).  Every handler runs to its next await in one step, as   *)
(* the single-threaded event loop runs it; the network, the geolocation    *)
(* device and the clock are the environment and answer nondeterministically.*)
(***************************************************************************)
EXTENDS Integers, Sequences, FiniteSets, TLC

(***************************************************************************)
(* Program constants (src/src/lib/constants.ts).                           *)
(***************************************************************************)
MAX_RETRIES == 3
RETRY_DELAY == 1000
CACHE_DURATION_LOCATION == 10 * 60 * 1000

(***************************************************************************)
(* Bounds of the model.                                                    *)
(***************************************************************************)
\* the clock takes the values a * RETRY_DELAY + b * CACHE_DURATION_LOCATION
MaxDelaySteps == 2
MaxTtlSteps == 1
\* the clock of a single page load runs to MaxLiveSteps backoff units
MaxLiveSteps == 6

\* overlapping invocations of one resolver are told apart by a slot
CycleIds == {1, 2}

(***************************************************************************)
(* JavaScript values.  null is the empty tuple and a held value v is <<v>>;*)
(* a number is finite, NaN, an infinity, or missing (undefined).           *)
(***************************************************************************)
Null == <<>>
Some(v) == <<v>>

Num(n) == [kind |-> "num", v |-> n]
NaN == [kind |-> "nan"]
Infinity == [kind |-> "inf"]
Undefined == [kind |-> "undefined"]

isFinite(x) == x.kind = "num"

\* !x for a number or a missing value
Falsy(x) == x.kind \in {"undefined", "nan"} \/ (x.kind = "num" /\ x.v = 0)

\* the range test both hooks apply to a coordinate
InvalidCoordinates(lat, lon) ==
    \/ ~isFinite(lat)
    \/ ~isFinite(lon)
    \/ lat.v < -90
    \/ lat.v > 90
    \/ lon.v < -180
    \/ lon.v > 180

(***************************************************************************)
(* Place names.                                                            *)
(***************************************************************************)
RECURSIVE Join(_)
Join(parts) ==
    IF parts = <<>> THEN ""
    ELSE IF Len(parts) = 1 THEN parts[1]
    ELSE parts[1] \o ", " \o Join(Tail(parts))

IndexOf(self, value) == CHOOSE i \in 1..Len(self) : self[i] = value /\ \A j \in 1..(i - 1) : self[j] # value

\* a variant of FilterFirstOccurrences: only the empty values are dropped
FilterFirstOccurrences_KeepsDuplicates(self, index) ==
    SelectSeq(SubSeq(self, index, Len(self)), LAMBDA value : value # "")

\* finalParts: [...].filter((value, index, self) => value && self.indexOf(value) === index)
RECURSIVE FilterFirstOccurrences(_, _)
FilterFirstOccurrences(self, index) ==
    IF index > Len(self) THEN <<>>
    ELSE (IF self[index] # "" /\ IndexOf(self, self[index]) = index
          THEN <<self[index]>> ELSE <<>>)
             \o FilterFirstOccurrences(self, index + 1)

\* fetchLocationName: the display name of a reverse-geocode payload, "" when
\* no part is found (the code throws 'No location parts found')
LocationNameOf(data) ==
    Join(FilterFirstOccurrences(<<data.street, data.locality, data.city,
                                  data.principalSubdivision, data.countryName>>, 1))

\* [...].filter(Boolean)
IsTruthyString(value) == value # ""

\* getLocation: the display name of an IP-lookup payload
IpDisplayNameOf(data) ==
    LET joined == Join(SelectSeq(<<data.city, data.region, data.country_name>>,
                                 IsTruthyString))
    IN  IF joined = "" THEN "Ubicacion desconocida" ELSE joined

\* getLocation: the test that rejects an IP-lookup payload
IpCoordinatesRejected(data) ==
    \/ Falsy(data.latitude)
    \/ Falsy(data.longitude)
    \/ InvalidCoordinates(data.latitude, data.longitude)

LocationData(lat, lon, name) == [latitude |-> lat, longitude |-> lon, displayName |-> name]

(***************************************************************************)
(* What the environment can answer.                                        *)
(***************************************************************************)
\* position.coords of a successful getCurrentPosition
GeoCoords ==
    { <<Num(40), Num(-3)>>, <<Num(0), Num(10)>>, <<Num(95), Num(10)>>, <<NaN, Num(10)>> }

\* getCurrentPosition calls back with a position or with an error
GeoOutcomes ==
    {[kind |-> "denied"], [kind |-> "timeout"]}
        \cup {[kind |-> "position", coords |-> xy] : xy \in GeoCoords}

RgPayloads ==
    { [street |-> "", locality |-> "Centro", city |-> "Madrid",
       principalSubdivision |-> "", countryName |-> "Spain"],
      [street |-> "", locality |-> "Madrid", city |-> "Madrid",
       principalSubdivision |-> "Madrid", countryName |-> "Spain"],
      [street |-> "", locality |-> "", city |-> "",
       principalSubdivision |-> "", countryName |-> ""] }

IpPayloads ==
    { [latitude |-> Num(41), longitude |-> Num(2), city |-> "Barcelona",
       region |-> "", country_name |-> "Spain"],
      [latitude |-> Num(41), longitude |-> Num(2), city |-> "",
       region |-> "", country_name |-> ""],
      [latitude |-> Num(0), longitude |-> Num(10), city |-> "",
       region |-> "", country_name |-> "Gabon"],
      [latitude |-> Num(95), longitude |-> Num(10), city |-> "",
       region |-> "", country_name |-> ""],
      [latitude |-> Undefined, longitude |-> Undefined, city |-> "",
       region |-> "", country_name |-> ""] }

\* a fetch ends in a response that is not ok ("status"), in a rejection that is
\* not an abort ("network"), in the abort of its timeout ("timeout"), or in a
\* payload
FetchFailures == {"status", "network", "timeout"}

FetchOutcomes(payloads) ==
    {[kind |-> k] : k \in FetchFailures} \cup {[kind |-> "payload", data |-> p] : p \in payloads}

Instants ==
    { a * RETRY_DELAY + b * CACHE_DURATION_LOCATION :
          a \in 0..MaxDelaySteps, b \in 0..MaxTtlSteps }

(***************************************************************************)
(* State.                                                                  *)
(***************************************************************************)
VARIABLES
    now,            \* Date.now()
    geoSupported,   \* 'geolocation' in navigator
    cache,          \* localStorage['user-location']
    toast,          \* the last toast shown
    location,       \* useAppLocation: location
    locError,       \* useAppLocation: error
    locLoading,     \* useAppLocation: loading
    locCycle,       \* the invocations of getLocation, by slot
    weatherApiKey,  \* process.env.NEXT_PUBLIC_WEATHERAPI_KEY, "" when not set
    latitude,       \* useWeather: the latitude it is rendered with
    longitude,      \* useWeather: the longitude it is rendered with
    weather,        \* useWeather: weather
    wxError,        \* useWeather: error
    wxLoading,      \* useWeather: loading
    wxCycle,        \* the invocations of fetchWeather, by slot
    settings,       \* SettingsProvider: settings
    storedSettings, \* localStorage['chronos-settings']
    providerMounted,\* the effects of SettingsProvider have run
    pendingSettings,\* the settings of the update loadSettings has queued, if any
    mainContent,    \* MainContent: "loading", "mounted" or "unmounted"
    intervals,      \* the timers that setInterval has set and clearInterval has not cleared
    intervalId,     \* by hook, the intervalId its interval effect will clear, 0 for none
    latestVersion,  \* useVersionCheck: latestVersion
    isChecking,     \* useVersionCheck: isChecking
    vcError,        \* useVersionCheck: error
    dismissedUpdate,\* useVersionCheck: dismissedUpdate
    vcMounted,      \* the effect of useVersionCheck has run and its interval is set
    effectIsChecking, \* the isChecking of the render whose checkForUpdates the effect holds
    vcCycle,        \* the invocations of checkForUpdates, by slot
    locLatest,      \* the slot of the latest call of getLocation, 0 for none
    wxLatest        \* the slot of the latest call of fetchWeather that started a cycle

locVars == <<geoSupported, cache, location, locError, locLoading, locCycle, locLatest>>

wxVars ==
    <<weatherApiKey, latitude, longitude, weather, wxError, wxLoading, wxCycle, wxLatest>>

vcVars ==
    <<latestVersion, isChecking, vcError, dismissedUpdate, vcMounted, effectIsChecking, vcCycle>>

\* what no step of getLocation or fetchWeather touches
viewVars ==
    <<settings, storedSettings, providerMounted, pendingSettings, mainContent, intervals,
      intervalId, vcVars>>

vars == <<now, toast, locVars, wxVars, viewVars>>

NoToast == [title |-> "", description |-> "", variant |-> ""]
FallbackToast ==
    [title |-> "No se pudo usar la geolocalizacion.",
     description |-> "Usando ubicacion por IP como alternativa.",
     variant |-> "default"]
LocationErrorToast(errorMessage) ==
    [title |-> "Error al obtener la ubicacion",
     description |-> errorMessage,
     variant |-> "destructive"]

CacheAbsent == [kind |-> "absent"]
CacheGarbage == [kind |-> "garbage"]
CacheEntry(timestamp, data) == [kind |-> "entry", timestamp |-> timestamp, data |-> data]

\* an invocation of getLocation: where it is suspended, its locals, and what
\* it has asked of the environment so far
IdleLocCycle ==
    [pc |-> "idle", force |-> FALSE, attempt |-> 0,
     latitude |-> Undefined, longitude |-> Undefined,
     timerSet |-> 0, timerDelay |-> 0,
     geo |-> "none", rgReqs |-> 0, ipReqs |-> 0,
     lastRg |-> "none", lastIp |-> "none", rgData |-> Undefined, ipData |-> Undefined,
     result |-> "none"]

LocInFlight(c) == locCycle[c].pc \notin {"idle", "done"}

LocIdle == \A c \in CycleIds : ~LocInFlight(c)

\* the slot a new invocation takes
LocFreeSlot(c) == ~LocInFlight(c) /\ \A d \in CycleIds : d < c => LocInFlight(d)

InitLocation ==
    /\ geoSupported \in BOOLEAN
    /\ cache \in {CacheAbsent,
                  CacheEntry(0, LocationData(Num(40), Num(-3), "Centro, Madrid, Spain"))}
    /\ location = Null
    /\ locError = Null
    /\ locLoading = TRUE
    /\ locCycle = [c \in CycleIds |-> IdleLocCycle]
    /\ locLatest = 0

(***************************************************************************)
(* getLocation.                                                            *)
(***************************************************************************)
\* a variant of CacheFresh: an entry exactly CACHE_DURATION old still counts as fresh
CacheFresh_Inclusive(entry, time) == time - entry.timestamp <= CACHE_DURATION_LOCATION

\* the cache test of a call that is not forced
CacheFresh(entry, time) == time - entry.timestamp < CACHE_DURATION_LOCATION

\* a variant of LocFail: the failure is caught and not reported
LocFail_Swallowed(c, cyc, errorMessage) ==
    /\ locLoading' = FALSE
    /\ locCycle' = [locCycle EXCEPT ![c] =
           [cyc EXCEPT !.pc = "done", !.result = "error", !.force = FALSE, !.attempt = 0,
                       !.latitude = Undefined, !.longitude = Undefined,
                       !.timerSet = 0, !.timerDelay = 0]]
    /\ UNCHANGED <<locError, toast, location, cache>>

\* catch (err) ... finally: the failure is surfaced
\* a variant of LocFail: a failed invocation removes the cache entry
LocFail_RemovesEntry(c, cyc, errorMessage) ==
    /\ locError' = Some(errorMessage)
    /\ toast' = LocationErrorToast(errorMessage)
    /\ locLoading' = FALSE
    /\ locCycle' = [locCycle EXCEPT ![c] =
           [cyc EXCEPT !.pc = "done", !.result = "error", !.force = FALSE, !.attempt = 0,
                       !.latitude = Undefined, !.longitude = Undefined,
                       !.timerSet = 0, !.timerDelay = 0]]
    /\ cache' = CacheAbsent
    /\ UNCHANGED location

LocFail(c, cyc, errorMessage) ==
    /\ locError' = Some(errorMessage)
    /\ toast' = LocationErrorToast(errorMessage)
    /\ locLoading' = FALSE
    /\ locCycle' = [locCycle EXCEPT ![c] =
           [cyc EXCEPT !.pc = "done", !.result = "error", !.force = FALSE, !.attempt = 0,
                       !.latitude = Undefined, !.longitude = Undefined,
                       !.timerSet = 0, !.timerDelay = 0]]
    /\ UNCHANGED <<location, cache>>

\* a variant of LocSucceed: after a precise success control still reaches
\* catch (geoError) and the IP loop sends its first request
LocSucceed_FallsThrough(c, cyc, newLocation, how) ==
    IF how = "precise"
    THEN /\ toast' = FallbackToast
         /\ locCycle' = [locCycle EXCEPT ![c] =
                [cyc EXCEPT !.pc = "ip", !.attempt = 1, !.ipReqs = 1,
                            !.latitude = Undefined, !.longitude = Undefined]]
         /\ UNCHANGED <<location, cache, locError, locLoading>>
    ELSE /\ location' = Some(newLocation)
         /\ cache' = CacheEntry(now, newLocation)
         /\ locLoading' = FALSE
         /\ locCycle' = [locCycle EXCEPT ![c] =
                [cyc EXCEPT !.pc = "done", !.result = how, !.force = FALSE, !.attempt = 0,
                            !.latitude = Undefined, !.longitude = Undefined,
                            !.timerSet = 0, !.timerDelay = 0]]
         /\ UNCHANGED <<locError, toast>>

\* a variant of LocSucceed: the entry written holds another record than the one exposed
LocSucceed_CachesOther(c, cyc, newLocation, how) ==
    /\ location' = Some(newLocation)
    /\ cache' = CacheEntry(now, LocationData(Num(1), Num(1), "Elsewhere"))
    /\ locLoading' = FALSE
    /\ locCycle' = [locCycle EXCEPT ![c] =
           [cyc EXCEPT !.pc = "done", !.result = how, !.force = FALSE, !.attempt = 0,
                       !.latitude = Undefined, !.longitude = Undefined,
                       !.timerSet = 0, !.timerDelay = 0]]
    /\ UNCHANGED <<locError, toast>>

\* a variant of LocSucceed: the record is exposed and the cache is left as it was
LocSucceed_NoCacheWrite(c, cyc, newLocation, how) ==
    /\ location' = Some(newLocation)
    /\ locLoading' = FALSE
    /\ locCycle' = [locCycle EXCEPT ![c] =
           [cyc EXCEPT !.pc = "done", !.result = how, !.force = FALSE, !.attempt = 0,
                       !.latitude = Undefined, !.longitude = Undefined,
                       !.timerSet = 0, !.timerDelay = 0]]
    /\ UNCHANGED <<locError, toast, cache>>

\* setLocation(newLocation); localStorage.setItem(...); finally
LocSucceed(c, cyc, newLocation, how) ==
    /\ location' = Some(newLocation)
    /\ cache' = CacheEntry(now, newLocation)
    /\ locLoading' = FALSE
    /\ locCycle' = [locCycle EXCEPT ![c] =
           [cyc EXCEPT !.pc = "done", !.result = how, !.force = FALSE, !.attempt = 0,
                       !.latitude = Undefined, !.longitude = Undefined,
                       !.timerSet = 0, !.timerDelay = 0]]
    /\ UNCHANGED <<locError, toast>>

\* what the collaborators of a step do: localStorage.setItem stores the entry or
\* throws (quota exceeded, storage disabled), and the telemetry sink
\* (window.gtag) returns or throws
Healthy == [write |-> "ok", telemetry |-> "ok"]

Environments == [write : {"ok", "throws"}, telemetry : {"ok", "throws"}]

\* trackWeatherLocation.locationError throws inside catch (err): setError and
\* the toast are skipped, finally runs, and the promise of getLocation rejects
LocReject(c, cyc) ==
    /\ locLoading' = FALSE
    /\ locCycle' = [locCycle EXCEPT ![c] =
           [cyc EXCEPT !.pc = "done", !.result = "rejected", !.force = FALSE,
                       !.attempt = 0,
                       !.latitude = Undefined, !.longitude = Undefined,
                       !.timerSet = 0, !.timerDelay = 0]]
    /\ UNCHANGED <<locError, toast, location, cache>>

\* catch (err): trackWeatherLocation.locationError(errorMessage), setError, toast
LocFailIn(c, cyc, errorMessage, env) ==
    IF env.telemetry = "throws"
    THEN LocReject(c, cyc)
    ELSE LocFail(c, cyc, errorMessage)

\* setLocation(newLocation); localStorage.setItem(...): when setItem throws the
\* record is already exposed and control goes to catch (err)
LocPersistIn(c, cyc, newLocation, how, env) ==
    IF env.write = "throws"
    THEN /\ location' = Some(newLocation)
         /\ locLoading' = FALSE
         /\ UNCHANGED cache
         /\ IF env.telemetry = "throws"
            THEN /\ locCycle' = [locCycle EXCEPT ![c] =
                        [cyc EXCEPT !.pc = "done", !.result = "rejected", !.force = FALSE,
                                    !.attempt = 0,
                                    !.latitude = Undefined, !.longitude = Undefined,
                                    !.timerSet = 0, !.timerDelay = 0]]
                 /\ UNCHANGED <<locError, toast>>
            ELSE /\ locCycle' = [locCycle EXCEPT ![c] =
                        [cyc EXCEPT !.pc = "done", !.result = "error", !.force = FALSE,
                                    !.attempt = 0,
                                    !.latitude = Undefined, !.longitude = Undefined,
                                    !.timerSet = 0, !.timerDelay = 0]]
                 /\ locError' = Some("QuotaExceededError")
                 /\ toast' = LocationErrorToast("QuotaExceededError")
    ELSE LocSucceed(c, cyc, newLocation, how)

\* catch (geoError): the toast, and the first request of the IP loop
LocStartIpFallback(c, cyc) ==
    /\ toast' = FallbackToast
    /\ locCycle' = [locCycle EXCEPT ![c] =
           [cyc EXCEPT !.pc = "ip", !.attempt = 1, !.ipReqs = 1,
                       !.latitude = Undefined, !.longitude = Undefined,
                       !.timerSet = 0, !.timerDelay = 0]]

\* a variant of BackoffDelay: the same wait before every retry
BackoffDelay_Constant(attempt) == RETRY_DELAY

\* await new Promise(resolve => setTimeout(resolve, RETRY_CONFIG.DELAY * attempt))
BackoffDelay(attempt) == RETRY_DELAY * attempt

LocWait(c, cyc, waitPc) ==
    locCycle' = [locCycle EXCEPT ![c] =
        [cyc EXCEPT !.pc = waitPc, !.timerSet = now, !.timerDelay = BackoffDelay(cyc.attempt)]]

\* a call of getLocation(force), up to its first await
GetLocationCall(c, force, env) ==
    /\ LocFreeSlot(c)
    /\ LET cyc == [IdleLocCycle EXCEPT !.force = force]
       IN  IF ~force /\ cache.kind = "garbage"
           THEN \* JSON.parse throws
                LocFailIn(c, cyc, "Unexpected token in JSON", env)
           ELSE IF ~force /\ cache.kind = "entry" /\ CacheFresh(cache, now)
           THEN /\ location' = Some(cache.data)
                /\ locLoading' = FALSE
                /\ locError' = Null
                /\ locCycle' = [locCycle EXCEPT ![c] =
                       [cyc EXCEPT !.pc = "done", !.result = "cache"]]
                /\ UNCHANGED <<cache, toast>>
           ELSE IF ~geoSupported
           THEN /\ locLoading' = TRUE
                /\ locError' = Null
                /\ LocStartIpFallback(c, [cyc EXCEPT !.geo = "unsupported"])
                /\ UNCHANGED <<location, cache>>
           ELSE /\ locLoading' = TRUE
                /\ locError' = Null
                /\ locCycle' = [locCycle EXCEPT ![c] =
                       [cyc EXCEPT !.pc = "geo", !.geo = "pending"]]
                /\ UNCHANGED <<location, cache, toast>>
    /\ locLatest' = c
    /\ UNCHANGED <<now, geoSupported>>
    /\ UNCHANGED wxVars

\* getLocation(force) called while nothing is mounted or unmounted and no
\* setting changes
GetLocationIn(c, force, env) == GetLocationCall(c, force, env) /\ UNCHANGED viewVars

\* getLocation with a store that accepts the entry and a telemetry sink that returns
GetLocation(c, force) == GetLocationIn(c, force, Healthy)

\* getCurrentPosition answers
GeoResult(c, outcome) ==
    /\ locCycle[c].pc = "geo"
    /\ LET cyc == locCycle[c]
       IN  IF outcome.kind \in {"denied", "timeout"}
           THEN LocStartIpFallback(c, [cyc EXCEPT !.geo = outcome.kind])
           ELSE LET lat == outcome.coords[1]
                    lon == outcome.coords[2]
                IN  IF InvalidCoordinates(lat, lon)
                    THEN LocStartIpFallback(c, [cyc EXCEPT !.geo = "invalid"])
                    ELSE \* fetchLocationName: its own test passes, first request
                         /\ locCycle' = [locCycle EXCEPT ![c] =
                                [cyc EXCEPT !.pc = "rg", !.geo = "ok", !.attempt = 1,
                                            !.rgReqs = 1,
                                            !.latitude = lat,
                                            !.longitude = lon]]
                         /\ UNCHANGED toast
    /\ UNCHANGED <<now, geoSupported, cache, location, locError, locLoading>>
    /\ UNCHANGED locLatest
    /\ UNCHANGED wxVars
    /\ UNCHANGED viewVars

\* the reverse-geocode request of the current attempt answers
RgResponseIn(c, outcome, env) ==
    /\ locCycle[c].pc = "rg"
    /\ UNCHANGED locLatest
    /\ UNCHANGED wxVars
    /\ UNCHANGED viewVars
    /\ LET cyc == locCycle[c]
           name == IF outcome.kind \in FetchFailures THEN ""
                   ELSE LocationNameOf(outcome.data)
           kind == IF outcome.kind \in FetchFailures THEN outcome.kind
                   ELSE IF name = "" THEN "noparts" ELSE "ok"
           seen == [cyc EXCEPT !.lastRg = kind,
                               !.rgData = IF outcome.kind \in FetchFailures THEN Undefined
                                          ELSE outcome.data]
       IN  IF kind = "ok" /\ env.telemetry = "throws"
           THEN \* locationGeolocationSuccess throws inside the try: catch (geoError)
                /\ LocStartIpFallback(c, seen)
                /\ UNCHANGED <<now, geoSupported, cache, location, locError, locLoading>>
           ELSE IF kind = "ok"
           THEN /\ LocPersistIn(c, seen,
                                LocationData(cyc.latitude, cyc.longitude, name),
                                "precise", env)
                /\ UNCHANGED <<now, geoSupported>>
           ELSE IF cyc.attempt = MAX_RETRIES \/ kind = "timeout"
           THEN \* fetchLocationName throws: catch (geoError)
                /\ LocStartIpFallback(c, seen)
                /\ UNCHANGED <<now, geoSupported, cache, location, locError, locLoading>>
           ELSE /\ LocWait(c, seen, "rgWait")
                /\ UNCHANGED <<now, geoSupported, cache, location, locError, locLoading, toast>>

RgResponse(c, outcome) == RgResponseIn(c, outcome, Healthy)

\* the backoff timer of fetchLocationName fires: the next attempt's request
RgRetry(c) ==
    /\ locCycle[c].pc = "rgWait"
    /\ now - locCycle[c].timerSet >= locCycle[c].timerDelay
    /\ locCycle' = [locCycle EXCEPT ![c] =
           [@ EXCEPT !.pc = "rg", !.attempt = @ + 1, !.rgReqs = @ + 1,
                     !.timerSet = 0, !.timerDelay = 0]]
    /\ UNCHANGED <<now, geoSupported, cache, location, locError, locLoading, toast>>
    /\ UNCHANGED locLatest
    /\ UNCHANGED wxVars
    /\ UNCHANGED viewVars

\* the message of the error an IP attempt throws
IpErrorMessage(kind, last) ==
    CASE kind = "status" -> "IP API response not OK"
      [] kind = "invalid" -> "IP API did not return valid coordinates"
      [] kind = "network" -> "Failed to fetch"
      [] kind = "timeout" /\ last -> "The user aborted a request."
      [] kind = "timeout" /\ ~last -> "IP location request timeout"

\* the IP-lookup request of the current attempt answers
IpResponseIn(c, outcome, env) ==
    /\ locCycle[c].pc = "ip"
    /\ UNCHANGED locLatest
    /\ UNCHANGED wxVars
    /\ UNCHANGED viewVars
    /\ LET cyc == locCycle[c]
           kind == IF outcome.kind \in FetchFailures THEN outcome.kind
                   ELSE IF IpCoordinatesRejected(outcome.data) THEN "invalid" ELSE "ok"
           seen == [cyc EXCEPT !.lastIp = kind,
                               !.ipData = IF outcome.kind \in FetchFailures THEN Undefined
                                          ELSE outcome.data]
       IN  IF kind = "ok" /\ env.telemetry = "throws"
           THEN \* locationIPFallback throws inside the try: catch (ipError)
                IF cyc.attempt = MAX_RETRIES
                THEN /\ LocFailIn(c, seen, "window.gtag is not a function", env)
                     /\ UNCHANGED <<now, geoSupported>>
                ELSE /\ LocWait(c, seen, "ipWait")
                     /\ UNCHANGED <<now, geoSupported, cache, location, locError,
                                    locLoading, toast>>
           ELSE IF kind = "ok"
           THEN /\ LocPersistIn(c, seen,
                                LocationData(outcome.data.latitude, outcome.data.longitude,
                                             IpDisplayNameOf(outcome.data)), "ip", env)
                /\ UNCHANGED <<now, geoSupported>>
           ELSE IF cyc.attempt = MAX_RETRIES \/ kind = "timeout"
           THEN /\ LocFailIn(c, seen, IpErrorMessage(kind, cyc.attempt = MAX_RETRIES), env)
                /\ UNCHANGED <<now, geoSupported>>
           ELSE /\ LocWait(c, seen, "ipWait")
                /\ UNCHANGED <<now, geoSupported, cache, location, locError, locLoading, toast>>

IpResponse(c, outcome) == IpResponseIn(c, outcome, Healthy)

\* the backoff timer of the IP loop fires: the next attempt's request
IpRetry(c) ==
    /\ locCycle[c].pc = "ipWait"
    /\ now - locCycle[c].timerSet >= locCycle[c].timerDelay
    /\ locCycle' = [locCycle EXCEPT ![c] =
           [@ EXCEPT !.pc = "ip", !.attempt = @ + 1, !.ipReqs = @ + 1,
                     !.timerSet = 0, !.timerDelay = 0]]
    /\ UNCHANGED <<now, geoSupported, cache, location, locError, locLoading, toast>>
    /\ UNCHANGED locLatest
    /\ UNCHANGED wxVars
    /\ UNCHANGED viewVars

\* the clock advances
AdvanceTime(t) ==
    /\ t > now
    /\ now' = t
    /\ UNCHANGED <<toast, locVars, wxVars, viewVars>>

(***************************************************************************)
(* Weather payloads.  A missing member is Undefined; an array holds its    *)
(* items.                                                                  *)
(***************************************************************************)
Array(items) == [kind |-> "array", items |-> items]

\* array?.[0]
First(array) ==
    IF array = Undefined THEN Undefined
    ELSE IF Len(array.items) = 0 THEN Undefined ELSE array.items[1]

PrimaryCurrent(temp, humidity, uv, condition, air) ==
    [temp_c |-> temp, humidity |-> humidity, uv |-> uv,
     condition |-> condition, air_quality |-> air]

ForecastOf(day) == [forecastday |-> Array(<<[day |-> day]>>)]

MadridDay == [mintemp_c |-> Num(10), maxtemp_c |-> Num(18), daily_chance_of_rain |-> Num(20)]

PrimaryPayloads ==
    { \* the payload of the Madrid scenario: no air quality supplied
      [current |-> PrimaryCurrent(Num(15), Num(60), Num(3), [code |-> Num(1)], Undefined),
       forecast |-> ForecastOf(MadridDay)],
      \* air quality supplied
      [current |-> PrimaryCurrent(Num(22), Num(40), Num(7), [code |-> Num(2)],
                                  [us_epa_index |-> Num(3)]),
       forecast |-> ForecastOf(MadridDay)],
      \* no forecast day
      [current |-> PrimaryCurrent(Num(15), Num(60), Num(3), [code |-> Num(1)], Undefined),
       forecast |-> [forecastday |-> Array(<<>>)]],
      \* no current
      [current |-> Undefined, forecast |-> ForecastOf(MadridDay)],
      \* current without condition
      [current |-> PrimaryCurrent(Num(15), Num(60), Num(3), Undefined, Undefined),
       forecast |-> ForecastOf(MadridDay)],
      \* current without temp_c
      [current |-> PrimaryCurrent(Undefined, Num(60), Num(3), [code |-> Num(1)], Undefined),
       forecast |-> ForecastOf(MadridDay)] }

SecondaryCurrent(temp, humidity, uv, code, rain) ==
    [temperature_2m |-> temp, relative_humidity_2m |-> humidity, uv_index |-> uv,
     weather_code |-> code, precipitation_probability |-> rain]

SecondaryPayloads ==
    { [current |-> SecondaryCurrent(Num(14), Num(55), Num(2), Num(3), Num(30)),
       daily |-> [temperature_2m_max |-> Array(<<Num(17)>>),
                  temperature_2m_min |-> Array(<<Num(9)>>)]],
      \* no precipitation probability
      [current |-> SecondaryCurrent(Num(14), Num(55), Num(2), Num(3), Undefined),
       daily |-> [temperature_2m_max |-> Array(<<Num(17)>>),
                  temperature_2m_min |-> Array(<<Num(9)>>)]],
      \* no daily
      [current |-> SecondaryCurrent(Num(14), Num(55), Num(2), Num(3), Num(30)),
       daily |-> Undefined],
      \* daily without its arrays
      [current |-> SecondaryCurrent(Num(14), Num(55), Num(2), Num(3), Num(30)),
       daily |-> [temperature_2m_max |-> Undefined, temperature_2m_min |-> Undefined]],
      \* daily with empty arrays
      [current |-> SecondaryCurrent(Num(14), Num(55), Num(2), Num(3), Num(30)),
       daily |-> [temperature_2m_max |-> Array(<<>>), temperature_2m_min |-> Array(<<>>)]],
      \* current without temperature_2m
      [current |-> SecondaryCurrent(Undefined, Num(55), Num(2), Num(3), Num(30)),
       daily |-> [temperature_2m_max |-> Array(<<Num(17)>>),
                  temperature_2m_min |-> Array(<<Num(9)>>)]] }

\* the coordinates useWeather is rendered with
WeatherCoords ==
    { <<Num(40), Num(-3)>>, <<Num(0), Num(10)>>, <<Num(95), Num(10)>>,
      <<Num(95), Num(0)>>, <<NaN, Num(10)>>, <<Infinity, Num(10)>> }

(***************************************************************************)
(* fetchWeather.                                                           *)
(***************************************************************************)
WeatherErrorToast(message) ==
    [title |-> "Error al obtener el clima", description |-> message,
     variant |-> "destructive"]

NoOutcome == [kind |-> "none"]

\* an invocation of fetchWeather: where it is suspended and what the providers
\* have answered
IdleWxCycle ==
    [pc |-> "idle", primaryReqs |-> 0, secondaryReqs |-> 0,
     primary |-> NoOutcome, secondary |-> NoOutcome, result |-> "none"]

WxInFlight(c) == wxCycle[c].pc \notin {"idle", "done"}

WxIdle == \A c \in CycleIds : ~WxInFlight(c)

WxFreeSlot(c) == ~WxInFlight(c) /\ \A d \in CycleIds : d < c => WxInFlight(d)

InitWeather ==
    /\ weatherApiKey \in {"", "key"}
    /\ latitude = Undefined
    /\ longitude = Undefined
    /\ weather = Null
    /\ wxError = Null
    /\ wxLoading = TRUE
    /\ wxCycle = [c \in CycleIds |-> IdleWxCycle]
    /\ wxLatest = 0

\* data?.current && data?.forecast?.forecastday?.[0]
PrimaryAccepted(data) ==
    /\ data.current # Undefined
    /\ data.forecast # Undefined
    /\ First(data.forecast.forecastday) # Undefined

\* a variant of PrimaryMappingThrows: the mapping throws on every payload
PrimaryMappingThrows_Always(data) == TRUE

\* the mapping reads a member of undefined: a TypeError
PrimaryMappingThrows(data) ==
    \/ data.current.condition = Undefined
    \/ First(data.forecast.forecastday).day = Undefined

\* a variant of AirQualityOf: the index of the payload is not read
AirQualityOf_NotRead(current) == Num(1)

\* current.air_quality?.['us-epa-index'] || 1
AirQualityOf(current) ==
    IF current.air_quality = Undefined THEN Num(1)
    ELSE IF Falsy(current.air_quality.us_epa_index) THEN Num(1)
    ELSE current.air_quality.us_epa_index

\* the WeatherData built from a payload of WeatherAPI.com
PrimaryWeather(data) ==
    LET current == data.current
        forecast == First(data.forecast.forecastday)
    IN  [temperature |-> current.temp_c,
         minTemperature |-> forecast.day.mintemp_c,
         maxTemperature |-> forecast.day.maxtemp_c,
         humidity |-> current.humidity,
         uvIndex |-> current.uv,
         weatherCode |-> current.condition.code,
         rainProbability |-> forecast.day.daily_chance_of_rain,
         airQuality |-> AirQualityOf(current)]

\* data?.current && data?.daily
SecondaryAccepted(data) == data.current # Undefined /\ data.daily # Undefined

\* data.daily.temperature_2m_min[0] of a missing array: a TypeError
SecondaryMappingThrows(data) ==
    \/ data.daily.temperature_2m_min = Undefined
    \/ data.daily.temperature_2m_max = Undefined

\* a variant of SecondaryWeather: the air quality is left out
SecondaryWeather_NoAirQuality(data) ==
    [temperature |-> data.current.temperature_2m,
     minTemperature |-> First(data.daily.temperature_2m_min),
     maxTemperature |-> First(data.daily.temperature_2m_max),
     humidity |-> data.current.relative_humidity_2m,
     uvIndex |-> data.current.uv_index,
     weatherCode |-> data.current.weather_code,
     rainProbability |-> IF Falsy(data.current.precipitation_probability) THEN Num(0)
                         ELSE data.current.precipitation_probability,
     airQuality |-> Undefined]

\* the WeatherData built from a payload of Open-Meteo
SecondaryWeather(data) ==
    [temperature |-> data.current.temperature_2m,
     minTemperature |-> First(data.daily.temperature_2m_min),
     maxTemperature |-> First(data.daily.temperature_2m_max),
     humidity |-> data.current.relative_humidity_2m,
     uvIndex |-> data.current.uv_index,
     weatherCode |-> data.current.weather_code,
     rainProbability |-> IF Falsy(data.current.precipitation_probability) THEN Num(0)
                         ELSE data.current.precipitation_probability,
     airQuality |-> Num(1)]

\* a variant of WxFail: the record held is dropped with the failure
WxFail_DropsWeather(c, cyc, name, message) ==
    /\ wxError' = Some("Temp. N/A: " \o message)
    /\ toast' = WeatherErrorToast(message)
    /\ wxLoading' = FALSE
    /\ wxCycle' = [wxCycle EXCEPT ![c] = [cyc EXCEPT !.pc = "done", !.result = "error"]]
    /\ weather' = Null

\* catch (err) ... finally of fetchWeather; name is err.name, message err.message
WxFail(c, cyc, name, message) ==
    /\ wxError' = Some(IF name = "AbortError" THEN "Temp. N/A: Request timeout"
                       ELSE "Temp. N/A: " \o message)
    /\ toast' = WeatherErrorToast(message)
    /\ wxLoading' = FALSE
    /\ wxCycle' = [wxCycle EXCEPT ![c] = [cyc EXCEPT !.pc = "done", !.result = "error"]]
    /\ UNCHANGED weather

\* a variant of WxSucceed: finally does not run after the record is set
WxSucceed_LeavesLoading(c, cyc, newWeather, how) ==
    /\ weather' = Some(newWeather)
    /\ wxCycle' = [wxCycle EXCEPT ![c] = [cyc EXCEPT !.pc = "done", !.result = how]]
    /\ UNCHANGED <<wxError, toast, wxLoading>>

\* setWeather(newWeather) ... finally
\* a variant of WxSucceed: the record of an invocation is dropped when a later
\* call of fetchWeather has superseded it
WxSucceed_DropsSuperseded(c, cyc, newWeather, how) ==
    /\ weather' = IF wxLatest = c THEN Some(newWeather) ELSE weather
    /\ wxLoading' = FALSE
    /\ wxCycle' = [wxCycle EXCEPT ![c] = [cyc EXCEPT !.pc = "done", !.result = how]]
    /\ UNCHANGED <<wxError, toast>>

WxSucceed(c, cyc, newWeather, how) ==
    /\ weather' = Some(newWeather)
    /\ wxLoading' = FALSE
    /\ wxCycle' = [wxCycle EXCEPT ![c] = [cyc EXCEPT !.pc = "done", !.result = how]]
    /\ UNCHANGED <<wxError, toast>>

\* the request to Open-Meteo is sent
WxRequestSecondary(c, cyc) ==
    wxCycle' = [wxCycle EXCEPT ![c] = [cyc EXCEPT !.pc = "secondary", !.secondaryReqs = @ + 1]]

\* fetchWeather run with the coordinates lat, lon, up to its first await
FetchWeatherBody(c, lat, lon) ==
    IF Falsy(lat) \/ Falsy(lon)
    THEN UNCHANGED <<weather, wxError, wxLoading, wxCycle, wxLatest, toast>>
    ELSE IF InvalidCoordinates(lat, lon)
    THEN /\ WxFail(c, [IdleWxCycle EXCEPT !.result = "invalid"], "Error", "Invalid coordinates")
         /\ wxLatest' = c
    ELSE /\ wxLoading' = TRUE
         /\ wxError' = Null
         /\ wxLatest' = c
         /\ IF weatherApiKey = ""
            THEN WxRequestSecondary(c, [IdleWxCycle EXCEPT !.primary = [kind |-> "skipped"]])
            ELSE wxCycle' = [wxCycle EXCEPT ![c] =
                     [IdleWxCycle EXCEPT !.pc = "primary", !.primaryReqs = 1]]
         /\ UNCHANGED <<weather, toast>>

\* useWeather is rendered with other coordinates: fetchWeather is rebuilt and
\* the effect that depends on it runs it
UseWeatherRender(c, lat, lon) ==
    /\ WxFreeSlot(c)
    /\ <<lat, lon>> # <<latitude, longitude>>
    /\ latitude' = lat
    /\ longitude' = lon
    /\ FetchWeatherBody(c, lat, lon)
    /\ UNCHANGED <<now, weatherApiKey, locVars>>

\* the same, the timers of the view left aside
UseWeather(c, lat, lon) == UseWeatherRender(c, lat, lon) /\ UNCHANGED viewVars

\* retry(), or a tick of the refresh interval
FetchWeather(c) ==
    /\ WxFreeSlot(c)
    /\ FetchWeatherBody(c, latitude, longitude)
    /\ UNCHANGED <<now, weatherApiKey, latitude, longitude, locVars>>
    /\ UNCHANGED viewVars

\* the request to WeatherAPI.com answers
PrimaryResponse(c, outcome) ==
    /\ wxCycle[c].pc = "primary"
    /\ LET cyc == [wxCycle[c] EXCEPT !.primary = outcome]
       IN  IF /\ outcome.kind = "payload"
              /\ PrimaryAccepted(outcome.data)
              /\ ~PrimaryMappingThrows(outcome.data)
           THEN WxSucceed(c, cyc, PrimaryWeather(outcome.data), "primary")
           ELSE /\ WxRequestSecondary(c, cyc)
                /\ UNCHANGED <<weather, wxError, wxLoading, toast>>
    /\ UNCHANGED <<now, weatherApiKey, latitude, longitude, locVars>>
    /\ UNCHANGED viewVars
    /\ UNCHANGED wxLatest

\* the request to Open-Meteo answers
SecondaryResponse(c, outcome) ==
    /\ wxCycle[c].pc = "secondary"
    /\ LET cyc == [wxCycle[c] EXCEPT !.secondary = outcome]
       IN  CASE outcome.kind = "network" -> WxFail(c, cyc, "TypeError", "Failed to fetch")
             [] outcome.kind = "timeout" ->
                    WxFail(c, cyc, "AbortError", "The user aborted a request.")
             [] outcome.kind = "status" -> WxFail(c, cyc, "Error", "Weather response not OK")
             [] outcome.kind = "payload" ->
                    IF ~SecondaryAccepted(outcome.data)
                    THEN WxFail(c, cyc, "Error", "Invalid weather data structure")
                    ELSE IF SecondaryMappingThrows(outcome.data)
                    THEN WxFail(c, cyc, "TypeError", "Cannot read properties of undefined")
                    ELSE WxSucceed(c, cyc, SecondaryWeather(outcome.data), "secondary")
    /\ UNCHANGED <<now, weatherApiKey, latitude, longitude, locVars>>
    /\ UNCHANGED viewVars
    /\ UNCHANGED wxLatest

(***************************************************************************)
(* The version check (useVersionCheck).  A version string is its optional  *)
(* 'v' prefix and its dot-separated numbers; lastChecked is left out.      *)
(***************************************************************************)
Version(prefixed, parts) == [kind |-> "string", prefixed |-> prefixed, parts |-> parts]

\* the string ''
EmptyString == Version(FALSE, <<>>)

\* APP_VERSION of @/lib/version
APP_VERSION == Version(TRUE, <<1, 1>>)

\* version.replace(/^v/, '')
StripV(version) == [version EXCEPT !.prefixed = FALSE]

\* a JavaScript value in a boolean position, for the values a version member takes
VersionTruthy(value) ==
    /\ value # Undefined
    /\ value.kind = "string" => value # EmptyString

PartAt(parts, i) == IF i <= Len(parts) THEN parts[i] ELSE 0

\* the comparison loop of isNewerVersion over the padded parts
RECURSIVE NewerFrom(_, _, _, _)
NewerFrom(v1Parts, v2Parts, i, length) ==
    IF i > length THEN FALSE
    ELSE IF PartAt(v1Parts, i) > PartAt(v2Parts, i) THEN TRUE
    ELSE IF PartAt(v1Parts, i) < PartAt(v2Parts, i) THEN FALSE
    ELSE NewerFrom(v1Parts, v2Parts, i + 1, length)

isNewerVersion(version1, version2) ==
    IF ~VersionTruthy(version1) \/ ~VersionTruthy(version2) THEN FALSE
    ELSE LET length == IF Len(version1.parts) > Len(version2.parts)
                       THEN Len(version1.parts) ELSE Len(version2.parts)
         IN  NewerFrom(version1.parts, version2.parts, 1, length)

currentVersionClean == StripV(APP_VERSION)

\* hasUpdate of the latest render
hasUpdate ==
    IF latestVersion # Null /\ VersionTruthy(latestVersion[1])
    THEN isNewerVersion(latestVersion[1], currentVersionClean)
         /\ dismissedUpdate # latestVersion
    ELSE FALSE

\* the body of a GitHub release answer: tag_name and version
ReleasePayloads ==
    { [tag_name |-> Version(TRUE, <<1, 2>>), version |-> Undefined],
      [tag_name |-> Version(TRUE, <<1, 1>>), version |-> Undefined],
      [tag_name |-> Version(FALSE, <<1, 0, 9>>), version |-> Undefined],
      [tag_name |-> Undefined, version |-> Version(FALSE, <<1, 2>>)],
      [tag_name |-> Version(TRUE, <<>>), version |-> Undefined],
      [tag_name |-> Undefined, version |-> Undefined],
      [tag_name |-> Num(2), version |-> Undefined] }

\* the body of a /package.json answer: version
PackagePayloads ==
    { [version |-> Version(FALSE, <<1, 2>>)],
      [version |-> Version(FALSE, <<1, 1>>)],
      [version |-> Undefined] }

\* latestVersionRaw and latestVersionClean of a release answer
LatestVersionRaw(releaseData) ==
    IF VersionTruthy(releaseData.tag_name) THEN releaseData.tag_name ELSE releaseData.version

\* latestVersionRaw?.replace is not a function when the member is not a string
ReplaceThrows(releaseData) ==
    LET raw == LatestVersionRaw(releaseData) IN raw # Undefined /\ raw.kind # "string"

LatestVersionClean(releaseData) ==
    LET raw == LatestVersionRaw(releaseData)
    IN  IF raw = Undefined THEN Null
        ELSE IF VersionTruthy(StripV(raw)) THEN Some(StripV(raw)) ELSE Null

\* the message of the error a failed release request is caught with
ReleaseErrorMessage(kind) ==
    CASE kind = "status" -> "Failed to fetch version info"
      [] kind = "network" -> "Failed to fetch"
      [] kind = "timeout" -> "The operation timed out"
      [] OTHER -> "latestVersionRaw.replace is not a function"

\* pc: "idle", "primary" (the release request is outstanding), "fallback" (the
\* /package.json request is outstanding), "done"; timeoutId: the 10 s timer of
\* the invocation is pending; primary, fallback: what the requests ended in;
\* releaseData, packageData: the bodies they answered with
IdleVcCycle ==
    [pc |-> "idle", timeoutId |-> FALSE, primary |-> "none", fallback |-> "none",
     releaseData |-> Undefined, packageData |-> Undefined]

InitVersionCheck ==
    /\ latestVersion = Null
    /\ isChecking = FALSE
    /\ vcError = Null
    /\ dismissedUpdate = Null
    /\ vcMounted = FALSE
    /\ effectIsChecking = FALSE
    /\ vcCycle = [c \in CycleIds |-> IdleVcCycle]

settingsVars ==
    <<settings, storedSettings, providerMounted, pendingSettings, mainContent, intervals,
      intervalId>>

\* what no step of the version check touches
notVcVars == <<now, toast, locVars, wxVars, settingsVars>>

VcInFlight(c) == vcCycle[c].pc \in {"primary", "fallback"}

\* checkForUpdates of a render in which isChecking was seesChecking, taken by
\* slot c: up to the first await
CheckForUpdatesCall(c, seesChecking) ==
    IF seesChecking
    THEN UNCHANGED <<isChecking, vcError, vcCycle>>
    ELSE /\ isChecking' = TRUE
         /\ vcError' = Null
         /\ vcCycle' = [vcCycle EXCEPT ![c] =
                            [IdleVcCycle EXCEPT !.pc = "primary", !.timeoutId = TRUE]]

\* the effect of useVersionCheck at mount: performInitialCheck and setInterval
MountVersionCheck(c) ==
    /\ ~vcMounted
    /\ ~VcInFlight(c)
    /\ vcMounted' = TRUE
    /\ effectIsChecking' = isChecking
    /\ CheckForUpdatesCall(c, isChecking)
    /\ UNCHANGED <<latestVersion, dismissedUpdate>>
    /\ UNCHANGED notVcVars

\* the effect runs again when checkInterval changes: the interval is cleared,
\* performInitialCheck and setInterval run with the checkForUpdates of this render
ChangeCheckInterval(c) ==
    /\ vcMounted
    /\ ~VcInFlight(c)
    /\ effectIsChecking' = isChecking
    /\ CheckForUpdatesCall(c, isChecking)
    /\ UNCHANGED <<latestVersion, dismissedUpdate, vcMounted>>
    /\ UNCHANGED notVcVars

\* the interval fires: the checkForUpdates the effect holds
PeriodicCheck(c) ==
    /\ vcMounted
    /\ ~VcInFlight(c)
    /\ CheckForUpdatesCall(c, effectIsChecking)
    /\ UNCHANGED <<latestVersion, dismissedUpdate, vcMounted, effectIsChecking>>
    /\ UNCHANGED notVcVars

\* the caller calls the checkForUpdates the latest render returned
CallerCheck(c) ==
    /\ vcMounted
    /\ ~VcInFlight(c)
    /\ CheckForUpdatesCall(c, isChecking)
    /\ UNCHANGED <<latestVersion, dismissedUpdate, vcMounted, effectIsChecking>>
    /\ UNCHANGED notVcVars

\* the finally block: clearTimeout(timeoutId) and setIsChecking(false)
VcFinally(c, cyc) ==
    /\ vcCycle' = [vcCycle EXCEPT ![c] = [cyc EXCEPT !.pc = "done", !.timeoutId = FALSE]]
    /\ isChecking' = FALSE

\* the release request of slot c ends
ReleaseResponse(c, outcome) ==
    /\ vcCycle[c].pc = "primary"
    /\ LET cyc == [vcCycle[c] EXCEPT
                       !.primary = outcome.kind,
                       !.releaseData = IF outcome.kind \in FetchFailures THEN Undefined
                                       ELSE outcome.data]
       IN  IF outcome.kind \in FetchFailures \/ ReplaceThrows(outcome.data)
           THEN /\ vcError' = Some(ReleaseErrorMessage(outcome.kind))
                /\ vcCycle' = [vcCycle EXCEPT ![c] = [cyc EXCEPT !.pc = "fallback"]]
                /\ UNCHANGED <<latestVersion, isChecking>>
           ELSE /\ latestVersion' =
                       IF LatestVersionClean(outcome.data) # Null
                       THEN LatestVersionClean(outcome.data)
                       ELSE Some(currentVersionClean)
                /\ VcFinally(c, cyc)
                /\ UNCHANGED vcError
    /\ UNCHANGED <<dismissedUpdate, vcMounted, effectIsChecking>>
    /\ UNCHANGED notVcVars

\* the /package.json request of slot c ends
PackageResponse(c, outcome) ==
    /\ vcCycle[c].pc = "fallback"
    /\ LET cyc == [vcCycle[c] EXCEPT
                       !.fallback = outcome.kind,
                       !.packageData = IF outcome.kind \in FetchFailures THEN Undefined
                                        ELSE outcome.data]
       IN  /\ latestVersion' =
                  IF outcome.kind \in FetchFailures THEN Some(currentVersionClean)
                  ELSE Some(outcome.data.version)
           /\ VcFinally(c, cyc)
    /\ UNCHANGED <<vcError, dismissedUpdate, vcMounted, effectIsChecking>>
    /\ UNCHANGED notVcVars

\* the 10 s timer of slot c fires; the release request is aborted after 8 s,
\* so the timer can only find the invocation at its /package.json request
VersionCheckTimeout(c) ==
    /\ vcCycle[c].pc = "fallback"
    /\ vcCycle[c].timeoutId
    /\ isChecking' = FALSE
    /\ vcError' = Some("Request timeout")
    /\ vcCycle' = [vcCycle EXCEPT ![c].timeoutId = FALSE]
    /\ UNCHANGED <<latestVersion, dismissedUpdate, vcMounted, effectIsChecking>>
    /\ UNCHANGED notVcVars

DismissUpdate ==
    /\ vcMounted
    /\ dismissedUpdate' =
           IF latestVersion # Null /\ VersionTruthy(latestVersion[1])
           THEN latestVersion ELSE dismissedUpdate
    /\ UNCHANGED <<latestVersion, isChecking, vcError, vcMounted, effectIsChecking, vcCycle>>
    /\ UNCHANGED notVcVars

(***************************************************************************)
(* Settings (SettingsProvider) and the refresh timers of the two hooks.    *)
(* Of the settings only refreshInterval is kept.                           *)
(***************************************************************************)
\* n + 0.5, a number that is not an integer
Half(n) == [kind |-> "half", v |-> n]

\* the JSON value null
JsonNull == [kind |-> "null"]

\* Number.isInteger(x)
IsInteger(x) == x.kind = "num"

\* x > 0 for what a settings object can hold: null converts to 0, undefined to NaN
GreaterThanZero(x) ==
    CASE x.kind = "num" -> x.v > 0
      [] x.kind = "half" -> x.v >= 0
      [] x.kind = "inf" -> TRUE
      [] OTHER -> FALSE

\* refreshInterval * 60 * 1000, for a refreshInterval greater than zero
IntervalDelay(x) ==
    IF x.kind = "num" THEN x.v * 60 * 1000 ELSE (2 * x.v + 1) * 30 * 1000

defaultSettings == [refreshInterval |-> Num(1)]

\* localStorage['chronos-settings']: no entry, a text JSON.parse cannot read,
\* a JSON text that is not an object, or an object; refreshInterval is
\* Undefined in an object that has no such key
NoStoredSettings == [kind |-> "absent"]
UnparsableSettings == [kind |-> "garbage"]
StoredScalar == [kind |-> "scalar"]
StoredObject(refreshInterval) == [kind |-> "object", refreshInterval |-> refreshInterval]

\* JSON.stringify(settingsToSave): a number that is not finite is written as null
Stringify(settingsToSave) ==
    StoredObject(IF settingsToSave.refreshInterval.kind \in {"nan", "inf"}
                 THEN JsonNull
                 ELSE settingsToSave.refreshInterval)

\* the entries a page load can find
StoredSettings ==
    {NoStoredSettings, UnparsableSettings, StoredScalar, StoredObject(Undefined)}
        \cup {StoredObject(v) : v \in {Num(0), Num(5), Num(-5), Num(500), Half(1), JsonNull}}

\* what setRefreshInterval can be called with
RefreshIntervalInputs ==
    {Num(-1), Num(0), Num(60), Num(61), Half(1), NaN}

HookNames == {"useAppLocation", "useWeather"}

InitView ==
    /\ settings = defaultSettings
    /\ storedSettings = NoStoredSettings
    /\ providerMounted = FALSE
    /\ pendingSettings = Null
    /\ mainContent = "loading"
    /\ intervals = {}
    /\ intervalId = [hook \in HookNames |-> 0]
    /\ InitVersionCheck

\* clearInterval(id)
ClearInterval(timers, id) == {t \in timers : t.id # id}

\* setInterval returns an id that no timer has: here the least one
NewIntervalId(timers) ==
    CHOOSE i \in 1..(Cardinality(timers) + 1) :
        /\ \A t \in timers : t.id # i
        /\ \A j \in 1..(i - 1) : \E t \in timers : t.id = j

\* the timers and the ids the cleanups hold, as one value
Timers == [intervals |-> intervals, intervalId |-> intervalId]

\* the cleanup the interval effect of hook returned, if it returned one
CleanupIntervalEffect(tm, hook) ==
    IF tm.intervalId[hook] = 0
    THEN tm
    ELSE [intervals |-> ClearInterval(tm.intervals, tm.intervalId[hook]),
          intervalId |-> [tm.intervalId EXCEPT ![hook] = 0]]

\* what the timer of a hook calls: getLocation, which is built once, or the
\* fetchWeather of a render, which holds the coordinates of that render
CallbackOf(hook, lat, lon) ==
    IF hook = "useWeather" THEN <<lat, lon>> ELSE <<>>

\* the body of the interval effect of hook in a render with refreshInterval
RunIntervalEffect(tm, hook, refreshInterval, callback) ==
    IF GreaterThanZero(refreshInterval)
    THEN LET id == NewIntervalId(tm.intervals)
         IN  [intervals |-> tm.intervals \cup
                  {[id |-> id, hook |-> hook, delay |-> IntervalDelay(refreshInterval),
                    callback |-> callback]},
              intervalId |-> [tm.intervalId EXCEPT ![hook] = id]]
    ELSE [tm EXCEPT !.intervalId[hook] = 0]

\* a variant of RerunIntervalEffect: the effect returns no cleanup
RerunIntervalEffect_NoCleanup(tm, hook, refreshInterval, callback) ==
    RunIntervalEffect(tm, hook, refreshInterval, callback)

\* a dependency of the interval effect of hook changed: its cleanup, then its body
RerunIntervalEffect(tm, hook, refreshInterval, callback) ==
    RunIntervalEffect(CleanupIntervalEffect(tm, hook), hook, refreshInterval, callback)

SetTimers(tm) ==
    /\ intervals' = tm.intervals
    /\ intervalId' = tm.intervalId

\* the commit that follows setSettings: the save effect writes the settings,
\* and the interval effects of the mounted hooks run again when
\* refreshInterval is another value
CommitSettings(nextSettings) ==
    /\ settings' = nextSettings
    /\ storedSettings' = Stringify(nextSettings)
    /\ IF mainContent = "mounted" /\ nextSettings.refreshInterval # settings.refreshInterval
       THEN SetTimers(RerunIntervalEffect(
                RerunIntervalEffect(Timers, "useAppLocation", nextSettings.refreshInterval,
                                    CallbackOf("useAppLocation", latitude, longitude)),
                "useWeather", nextSettings.refreshInterval,
                CallbackOf("useWeather", latitude, longitude)))
       ELSE UNCHANGED <<intervals, intervalId>>

\* SettingsProvider mounts.  Its first effect runs loadSettings, which reads
\* the entry and queues the update of the settings; its second effect runs
\* saveSettings with the settings of the first render, which are the defaults.
\* No update is queued for an entry that is not an object, nor for an entry
\* that cannot be parsed, since setSettings(defaultSettings) gives the state it
\* has; without an entry the update sets the language, when it is detected.
LoadSettings ==
    /\ ~providerMounted
    /\ providerMounted' = TRUE
    /\ storedSettings' = Stringify(settings)
    /\ CASE storedSettings.kind = "object" ->
               pendingSettings' =
                   Some(IF storedSettings.refreshInterval # Undefined
                        THEN [settings EXCEPT !.refreshInterval = storedSettings.refreshInterval]
                        ELSE settings)
          [] storedSettings.kind = "absent" -> pendingSettings' \in {Null, Some(settings)}
          [] OTHER -> pendingSettings' = Null
    /\ UNCHANGED <<settings, mainContent, intervals, intervalId, now, toast, locVars, wxVars>>
    /\ UNCHANGED vcVars

\* the update that loadSettings queued is rendered and committed
CommitLoadedSettings ==
    /\ pendingSettings # Null
    /\ pendingSettings' = Null
    /\ CommitSettings(pendingSettings[1])
    /\ UNCHANGED <<providerMounted, mainContent, now, toast, locVars, wxVars>>
    /\ UNCHANGED vcVars

\* setRefreshInterval(interval), called from the settings panel
SetRefreshInterval(interval) ==
    /\ providerMounted
    /\ mainContent = "mounted"
    /\ IF ~IsInteger(interval) \/ interval.v < 0 \/ interval.v > 60
       THEN UNCHANGED <<settings, storedSettings, intervals, intervalId>>
       ELSE CommitSettings([settings EXCEPT !.refreshInterval = interval])
    /\ UNCHANGED <<providerMounted, pendingSettings, mainContent, now, toast, locVars, wxVars>>
    /\ UNCHANGED vcVars

\* resetSettings(), called from the settings panel
ResetSettings ==
    /\ providerMounted
    /\ mainContent = "mounted"
    /\ CommitSettings(defaultSettings)
    /\ UNCHANGED <<providerMounted, pendingSettings, mainContent, now, toast, locVars, wxVars>>
    /\ UNCHANGED vcVars

\* MainContent mounts: the mount effect of useAppLocation calls getLocation(),
\* that of useWeather returns at once for want of coordinates, and the
\* interval effect of each hook runs
MountMainContent ==
    /\ providerMounted
    /\ pendingSettings = Null
    /\ mainContent = "loading"
    /\ mainContent' = "mounted"
    /\ GetLocationCall(1, FALSE, Healthy)
    /\ SetTimers(RunIntervalEffect(
           RunIntervalEffect(Timers, "useAppLocation", settings.refreshInterval,
                             CallbackOf("useAppLocation", latitude, longitude)),
           "useWeather", settings.refreshInterval,
           CallbackOf("useWeather", latitude, longitude)))
    /\ UNCHANGED <<settings, storedSettings, providerMounted, pendingSettings>>
    /\ UNCHANGED vcVars

\* MainContent renders useWeather with the coordinates of another location:
\* fetchWeather is rebuilt, the effect that depends on it calls it, and the
\* interval effect runs again
RenderWeather(c) ==
    /\ mainContent = "mounted"
    /\ location # Null
    /\ UseWeatherRender(c, location[1].latitude, location[1].longitude)
    /\ SetTimers(RerunIntervalEffect(Timers, "useWeather", settings.refreshInterval,
                                     CallbackOf("useWeather", latitude', longitude')))
    /\ UNCHANGED <<settings, storedSettings, providerMounted, pendingSettings, mainContent>>
    /\ UNCHANGED vcVars

\* the timer of useAppLocation fires: getLocation(true)
LocationTick(c) ==
    /\ \E t \in intervals : t.hook = "useAppLocation"
    /\ LocIdle
    /\ GetLocation(c, TRUE)

\* the timer of useWeather fires: the fetchWeather it was set with
WeatherTick(c) ==
    /\ WxIdle
    /\ WxFreeSlot(c)
    /\ \E t \in intervals :
           /\ t.hook = "useWeather"
           /\ FetchWeatherBody(c, t.callback[1], t.callback[2])
    /\ UNCHANGED <<now, weatherApiKey, latitude, longitude, locVars>>
    /\ UNCHANGED viewVars

\* MainContent unmounts: the cleanups of its effects run.  The calls in
\* flight keep running.
UnmountMainContent ==
    /\ mainContent = "mounted"
    /\ mainContent' = "unmounted"
    /\ SetTimers(CleanupIntervalEffect(CleanupIntervalEffect(Timers, "useAppLocation"),
                                       "useWeather"))
    /\ UNCHANGED <<settings, storedSettings, providerMounted, pendingSettings, now, toast,
                   locVars, wxVars>>
    /\ UNCHANGED vcVars

(***************************************************************************)
(* Specifications.                                                         *)
(***************************************************************************)
Init ==
    /\ now = 0
    /\ toast = NoToast
    /\ InitLocation
    /\ InitWeather
    /\ InitView

LocationSteps ==
    \/ \E c \in CycleIds, outcome \in GeoOutcomes : GeoResult(c, outcome)
    \/ \E c \in CycleIds, outcome \in FetchOutcomes(RgPayloads) : RgResponse(c, outcome)
    \/ \E c \in CycleIds : RgRetry(c)
    \/ \E c \in CycleIds, outcome \in FetchOutcomes(IpPayloads) : IpResponse(c, outcome)
    \/ \E c \in CycleIds : IpRetry(c)
    \/ \E t \in Instants : AdvanceTime(t)

WeatherSteps ==
    \/ \E c \in CycleIds, outcome \in FetchOutcomes(PrimaryPayloads) :
           PrimaryResponse(c, outcome)
    \/ \E c \in CycleIds, outcome \in FetchOutcomes(SecondaryPayloads) :
           SecondaryResponse(c, outcome)

\* the location resolver, its invocations one at a time
NextLocation ==
    \/ \E c \in CycleIds, force \in BOOLEAN : LocIdle /\ GetLocation(c, force)
    \/ LocationSteps

\* the location resolver, an invocation at any time
NextLocationRace ==
    \/ \E c \in CycleIds, force \in BOOLEAN : GetLocation(c, force)
    \/ LocationSteps

\* the location resolver called as the mount effect calls it, without force,
\* one invocation at a time
NextLocationUnforced ==
    \/ \E c \in CycleIds : LocIdle /\ GetLocation(c, FALSE)
    \/ LocationSteps

\* the location resolver, its invocations one at a time, with collaborators
\* whose outcomes are drawn from envs
NextLocationIn(envs) ==
    \/ \E c \in CycleIds, force \in BOOLEAN, env \in envs :
           LocIdle /\ GetLocationIn(c, force, env)
    \/ \E c \in CycleIds, outcome \in GeoOutcomes : GeoResult(c, outcome)
    \/ \E c \in CycleIds, outcome \in FetchOutcomes(RgPayloads), env \in envs :
           RgResponseIn(c, outcome, env)
    \/ \E c \in CycleIds : RgRetry(c)
    \/ \E c \in CycleIds, outcome \in FetchOutcomes(IpPayloads), env \in envs :
           IpResponseIn(c, outcome, env)
    \/ \E c \in CycleIds : IpRetry(c)
    \/ \E t \in Instants : AdvanceTime(t)

\* the store may refuse the entry and the telemetry sink may throw
NextLocationFaults == NextLocationIn(Environments)

\* the telemetry sink may throw; the store accepts every entry
NextLocationTelemetry == NextLocationIn({env \in Environments : env.write = "ok"})

\* the weather resolver, its invocations one at a time
NextWeather ==
    \/ \E c \in CycleIds, xy \in WeatherCoords : WxIdle /\ UseWeather(c, xy[1], xy[2])
    \/ \E c \in CycleIds : WxIdle /\ FetchWeather(c)
    \/ WeatherSteps

\* the weather resolver, an invocation at any time
NextWeatherRace ==
    \/ \E c \in CycleIds, xy \in WeatherCoords : UseWeather(c, xy[1], xy[2])
    \/ \E c \in CycleIds : FetchWeather(c)
    \/ WeatherSteps

Next == NextLocationRace \/ NextWeatherRace

Spec == Init /\ [][Next]_vars

\* the location resolver alone: the weather resolver is never rendered with
\* coordinates
InitLocationOnly == Init /\ weatherApiKey = ""

\* the weather resolver alone: getLocation is never called
InitWeatherOnly == Init /\ geoSupported /\ cache = CacheAbsent

SpecLocation == InitLocationOnly /\ [][NextLocation]_vars

SpecLocationRace == InitLocationOnly /\ [][NextLocationRace]_vars

SpecLocationUnforced == InitLocationOnly /\ [][NextLocationUnforced]_vars

\* the location resolver alone, started on a store whose 'user-location' entry
\* may also be one that JSON.parse cannot read
InitLocationFaults ==
    /\ now = 0
    /\ toast = NoToast
    /\ geoSupported \in BOOLEAN
    /\ cache \in {CacheAbsent, CacheGarbage,
                  CacheEntry(0, LocationData(Num(40), Num(-3), "Centro, Madrid, Spain"))}
    /\ location = Null
    /\ locError = Null
    /\ locLoading = TRUE
    /\ locCycle = [c \in CycleIds |-> IdleLocCycle]
    /\ locLatest = 0
    /\ InitWeather
    /\ weatherApiKey = ""
    /\ InitView

SpecLocationFaults == InitLocationFaults /\ [][NextLocationFaults]_vars

SpecLocationTelemetry == InitLocationOnly /\ [][NextLocationTelemetry]_vars

SpecWeather == InitWeatherOnly /\ [][NextWeather]_vars

SpecWeatherRace == InitWeatherOnly /\ [][NextWeatherRace]_vars

\* One page load: getLocation is called once, and MainContent renders
\* useWeather with the coordinates of the location it got.
LiveInstants == {k * RETRY_DELAY : k \in 0..MaxLiveSteps}

\* a backoff is only begun when the clock of the model reaches its end
ClockReachesTimers ==
    \A c \in CycleIds :
        locCycle'[c].pc \in {"rgWait", "ipWait"} =>
            locCycle'[c].timerSet + locCycle'[c].timerDelay <= MaxLiveSteps * RETRY_DELAY

PageGetLocation ==
    /\ \A c \in CycleIds : locCycle[c].pc = "idle"
    /\ \E force \in BOOLEAN : GetLocation(1, force)

PageGeoResult(c) == \E outcome \in GeoOutcomes : GeoResult(c, outcome)

PageRgResponse(c) ==
    \E outcome \in FetchOutcomes(RgPayloads) : RgResponse(c, outcome) /\ ClockReachesTimers

PageIpResponse(c) ==
    \E outcome \in FetchOutcomes(IpPayloads) : IpResponse(c, outcome) /\ ClockReachesTimers

\* within a page load only the backoff timers read the clock: it moves while
\* one is pending, and no further than the time at which that one fires
PageAdvanceTime ==
    \E c \in CycleIds, t \in LiveInstants :
        /\ locCycle[c].pc \in {"rgWait", "ipWait"}
        /\ t <= locCycle[c].timerSet + locCycle[c].timerDelay
        /\ AdvanceTime(t)

PageUseWeather ==
    /\ location # Null
    /\ WxIdle
    /\ \E c \in CycleIds : UseWeather(c, location[1].latitude, location[1].longitude)

PagePrimaryResponse(c) ==
    \E outcome \in FetchOutcomes(PrimaryPayloads) : PrimaryResponse(c, outcome)

PageSecondaryResponse(c) ==
    \E outcome \in FetchOutcomes(SecondaryPayloads) : SecondaryResponse(c, outcome)

NextPage ==
    \/ PageGetLocation
    \/ \E c \in CycleIds : PageGeoResult(c)
    \/ \E c \in CycleIds : PageRgResponse(c)
    \/ \E c \in CycleIds : RgRetry(c)
    \/ \E c \in CycleIds : PageIpResponse(c)
    \/ \E c \in CycleIds : IpRetry(c)
    \/ PageAdvanceTime
    \/ PageUseWeather
    \/ \E c \in CycleIds : PagePrimaryResponse(c)
    \/ \E c \in CycleIds : PageSecondaryResponse(c)

\* getCurrentPosition is called with a timeout and every fetch is aborted by
\* its own timer, so each request is answered; timers fire and time passes
FairPage ==
    /\ \A c \in CycleIds :
           /\ WF_vars(PageGeoResult(c))
           /\ WF_vars(PageRgResponse(c))
           /\ WF_vars(RgRetry(c))
           /\ WF_vars(PageIpResponse(c))
           /\ WF_vars(IpRetry(c))
           /\ WF_vars(PagePrimaryResponse(c))
           /\ WF_vars(PageSecondaryResponse(c))
    /\ WF_vars(PageAdvanceTime)

SpecPageLive == Init /\ [][NextPage]_vars /\ FairPage

\* The dashboard with its settings: SettingsProvider loads the stored
\* settings, MainContent mounts, the panel changes the settings, the timers
\* fire, and MainContent unmounts.  The invocations of each resolver run one
\* at a time.
InitDashboard ==
    /\ now = 0
    /\ toast = NoToast
    /\ InitLocation
    /\ InitWeather
    /\ geoSupported
    /\ weatherApiKey = "key"
    /\ settings = defaultSettings
    /\ storedSettings \in StoredSettings
    /\ providerMounted = FALSE
    /\ pendingSettings = Null
    /\ mainContent = "loading"
    /\ intervals = {}
    /\ intervalId = [hook \in HookNames |-> 0]
    /\ InitVersionCheck

\* every request is answered by a payload or runs into its timeout, which
\* ends the attempts of its source without a backoff
Answered(payloads) ==
    {[kind |-> "timeout"]} \cup {[kind |-> "payload", data |-> p] : p \in payloads}

DashboardGeoOutcomes ==
    {[kind |-> "denied"], [kind |-> "position", coords |-> <<Num(40), Num(-3)>>]}

DashboardRgPayloads == {p \in RgPayloads : LocationNameOf(p) = "Centro, Madrid, Spain"}

DashboardIpPayloads == {p \in IpPayloads : p.city = "Barcelona"}

DashboardPrimaryPayloads ==
    {p \in PrimaryPayloads : PrimaryAccepted(p) /\ ~PrimaryMappingThrows(p)}

DashboardSecondaryPayloads ==
    {p \in SecondaryPayloads : SecondaryAccepted(p) /\ ~SecondaryMappingThrows(p)}

NextDashboard ==
    \/ LoadSettings
    \/ CommitLoadedSettings
    \/ MountMainContent
    \/ \E interval \in RefreshIntervalInputs : SetRefreshInterval(interval)
    \/ ResetSettings
    \/ \E c \in CycleIds : RenderWeather(c)
    \/ \E c \in CycleIds : LocationTick(c)
    \/ \E c \in CycleIds : WeatherTick(c)
    \/ UnmountMainContent
    \/ \E c \in CycleIds, outcome \in DashboardGeoOutcomes : GeoResult(c, outcome)
    \/ \E c \in CycleIds, outcome \in Answered(DashboardRgPayloads) : RgResponse(c, outcome)
    \/ \E c \in CycleIds, outcome \in Answered(DashboardIpPayloads) : IpResponse(c, outcome)
    \/ \E c \in CycleIds, outcome \in Answered(DashboardPrimaryPayloads) : PrimaryResponse(c, outcome)
    \/ \E c \in CycleIds, outcome \in Answered(DashboardSecondaryPayloads) :
           SecondaryResponse(c, outcome)

SpecDashboard == InitDashboard /\ [][NextDashboard]_vars

(***************************************************************************)
(* The location resolver.                                                  *)
(***************************************************************************)
\* what a fetch attempt of the location resolver can fail with
RgAttemptFailures == {"status", "network", "timeout", "noparts"}
IpAttemptFailures == {"status", "network", "timeout", "invalid"}

\* slot c takes a new call of getLocation in this step
LocStarts(c) == ~LocInFlight(c) /\ locCycle'[c] # locCycle[c]

\* the invocation in slot c ends in this step
LocEnds(c) == LocInFlight(c) /\ locCycle'[c].pc = "done"

\* the precise path of an invocation is over and has failed
PreciseFailed(cyc) ==
    \/ cyc.geo \in {"unsupported", "denied", "timeout", "invalid"}
    \/ cyc.lastRg \in RgAttemptFailures /\ cyc.pc \notin {"rg", "rgWait"}

\* C1: a call of getLocation sends no geolocation, reverse-geocoding or
\* IP-lookup request exactly when it is not forced and the cache holds an entry
\* younger than 10 minutes; it then exposes the cached record with loading
\* false.  Every other call goes on to the precise-geolocation attempt.
C1_CacheServesExactlyFreshUnforced ==
    [][\A c \in CycleIds : LocStarts(c) =>
          LET new == locCycle'[c]
              fresh == cache.kind = "entry" /\ now - cache.timestamp < 10 * 60 * 1000
              served == ~new.force /\ fresh
              silent == /\ new.pc = "done"
                        /\ new.geo = "none"
                        /\ new.rgReqs = 0
                        /\ new.ipReqs = 0
          IN  /\ silent <=> served
              /\ served => location' = Some(cache.data) /\ locLoading' = FALSE
              /\ ~served => new.geo # "none" /\ new.pc \in {"geo", "ip"}]_vars

C1_Witness ==
    \E c \in CycleIds :
        /\ locCycle[c].pc = "done"
        /\ locCycle[c].result = "cache"
        /\ cache.kind = "entry"
        /\ location = Some(cache.data)
        /\ ~locLoading

\* C2: within one invocation an IP-lookup request is sent only once the precise
\* path has failed, it is sent as soon as the precise path has failed (so
\* before any error is surfaced), and an invocation whose precise path
\* succeeded sends none.
C2_IpLookupIffPreciseFailed ==
    \A c \in CycleIds :
        LET cyc == locCycle[c]
        IN  /\ cyc.ipReqs > 0 => PreciseFailed(cyc)
            /\ PreciseFailed(cyc) => cyc.ipReqs > 0
            /\ cyc.result = "error" => cyc.ipReqs > 0 /\ cyc.lastIp \in IpAttemptFailures
            /\ cyc.lastRg = "ok" => cyc.ipReqs = 0 /\ cyc.result = "precise"

C2_Witness ==
    \E c \in CycleIds :
        /\ locCycle[c].geo = "ok"
        /\ locCycle[c].lastRg = "status"
        /\ locCycle[c].rgReqs = MAX_RETRIES
        /\ locCycle[c].pc = "ip"
        /\ locCycle[c].ipReqs = 1

\* C5: an invocation in which the precise path and the IP lookup both failed
\* ends with error set to a message, the same message shown in a destructive
\* toast, and loading false; such an invocation never ends otherwise.
C5_BothPathsFailedIsSurfaced ==
    [][\A c \in CycleIds :
          (LocEnds(c) /\ PreciseFailed(locCycle'[c])
                      /\ locCycle'[c].lastIp \in IpAttemptFailures) =>
              /\ locCycle'[c].result = "error"
              /\ locError' # Null
              /\ locError'[1] # ""
              /\ toast'.variant = "destructive"
              /\ toast'.description = locError'[1]
              /\ locLoading' = FALSE]_vars

C5_Witness ==
    \E c \in CycleIds :
        /\ locCycle[c].pc = "done"
        /\ locCycle[c].geo = "denied"
        /\ locCycle[c].lastIp = "status"
        /\ locCycle[c].ipReqs = MAX_RETRIES
        /\ locError # Null
        /\ toast.variant = "destructive"
        /\ ~locLoading

\* C9 (as claimed): while attempts remain, a reverse-geocoding attempt that
\* fails by a response that is not ok, by a transport failure or by the abort
\* of its timeout is followed by the backoff and the next attempt; and an
\* invocation whose third attempt succeeds ends with the precise record and no
\* error.
C9_EveryFailureKindIsRetried ==
    /\ [][\A c \in CycleIds :
             (/\ locCycle[c].pc = "rg"
              /\ locCycle'[c].pc # "rg"
              /\ locCycle[c].attempt < 3
              /\ locCycle'[c].lastRg \in {"status", "network", "timeout"}) =>
                 locCycle'[c].pc = "rgWait"]_vars
    /\ [][\A c \in CycleIds :
             (LocEnds(c) /\ locCycle'[c].rgReqs = 3 /\ locCycle'[c].lastRg = "ok") =>
                 /\ locCycle'[c].result = "precise"
                 /\ locError' = Null
                 /\ location' # Null
                 /\ location'[1].latitude = locCycle[c].latitude
                 /\ location'[1].longitude = locCycle[c].longitude]_vars

\* C10: a reverse-geocoding call and an IP-lookup phase each send at most 3
\* requests; the request of attempt k+1 is sent only after attempt k failed and
\* k seconds have passed since; no request follows a successful attempt.
C10_BoundedRetriesAfterBackoff ==
    /\ [](\A c \in CycleIds : locCycle[c].rgReqs <= 3 /\ locCycle[c].ipReqs <= 3)
    /\ [][\A c \in CycleIds :
             LET old == locCycle[c]
                 new == locCycle'[c]
             IN  /\ new.rgReqs > old.rgReqs =>
                        IF old.rgReqs = 0 THEN old.lastRg = "none"
                        ELSE /\ old.pc = "rgWait"
                             /\ old.lastRg \in RgAttemptFailures
                             /\ new.rgReqs = old.rgReqs + 1
                             /\ now - old.timerSet >= old.rgReqs * 1000
                 /\ new.ipReqs > old.ipReqs =>
                        IF old.ipReqs = 0 THEN old.lastIp = "none"
                        ELSE /\ old.pc = "ipWait"
                             /\ old.lastIp \in IpAttemptFailures
                             /\ new.ipReqs = old.ipReqs + 1
                             /\ now - old.timerSet >= old.ipReqs * 1000]_vars

C10_Witness ==
    \E c \in CycleIds :
        /\ locCycle[c].rgReqs = 3
        /\ locCycle[c].lastRg = "network"
        /\ locCycle[c].ipReqs = 2
        /\ locCycle[c].lastIp = "ok"
        /\ locCycle[c].pc = "done"

(***************************************************************************)
(* The weather resolver.                                                   *)
(***************************************************************************)
\* slot c takes a call of fetchWeather that gets past its first test
WxStarts(c) == ~WxInFlight(c) /\ wxCycle'[c] # wxCycle[c]

\* the invocation in slot c ends in this step
WxEnds(c) == WxInFlight(c) /\ wxCycle'[c].pc = "done"

\* the answer of WeatherAPI.com is a failure: no response, a response that is
\* not ok, or a payload without current, forecast day, condition or day
PrimaryFailed(o) ==
    \/ o.kind \in {"status", "network", "timeout"}
    \/ /\ o.kind = "payload"
       /\ \/ o.data.current = Undefined
          \/ o.data.forecast = Undefined
          \/ Len(o.data.forecast.forecastday.items) = 0
          \/ o.data.forecast.forecastday.items[1].day = Undefined
          \/ o.data.current.condition = Undefined

\* the answer of Open-Meteo is a failure: no response, a response that is not
\* ok, or a payload without current, daily or the daily arrays
SecondaryFailed(o) ==
    \/ o.kind \in {"status", "network", "timeout"}
    \/ /\ o.kind = "payload"
       /\ \/ o.data.current = Undefined
          \/ o.data.daily = Undefined
          \/ o.data.daily.temperature_2m_min = Undefined
          \/ o.data.daily.temperature_2m_max = Undefined

\* every member the mapping reads is there (precipitation_probability is optional)
SecondaryWellFormed(o) ==
    /\ o.kind = "payload"
    /\ ~SecondaryFailed(o)
    /\ Len(o.data.daily.temperature_2m_min.items) > 0
    /\ Len(o.data.daily.temperature_2m_max.items) > 0
    /\ \A f \in {"temperature_2m", "relative_humidity_2m", "uv_index", "weather_code"} :
           o.data.current[f] # Undefined

\* C3: within one invocation WeatherAPI.com is asked at most once and only with
\* a key configured; Open-Meteo is asked at most once and only after
\* WeatherAPI.com was skipped for want of a key (no error is set by that) or
\* failed; after a success of WeatherAPI.com Open-Meteo is not asked; the two
\* requests are never outstanding together.
C3_ProvidersInSequence ==
    \A c \in CycleIds :
        LET cyc == wxCycle[c]
        IN  /\ cyc.primaryReqs <= 1
            /\ cyc.secondaryReqs <= 1
            /\ cyc.primaryReqs = 1 => weatherApiKey # ""
            /\ cyc.primaryReqs = 0 /\ cyc.secondaryReqs = 1 =>
                   cyc.primary.kind = "skipped" /\ weatherApiKey = ""
            /\ cyc.secondaryReqs = 1 =>
                   cyc.primary.kind = "skipped" \/ PrimaryFailed(cyc.primary)
            /\ cyc.primary.kind = "skipped" /\ cyc.pc = "secondary" => wxError = Null
            /\ cyc.primary.kind = "payload" /\ ~PrimaryFailed(cyc.primary) =>
                   cyc.secondaryReqs = 0 /\ cyc.result = "primary"
            /\ cyc.pc = "primary" => cyc.secondaryReqs = 0
            /\ cyc.pc = "secondary" => cyc.primary.kind # "none"

C3_Witness ==
    \E c \in CycleIds :
        /\ wxCycle[c].pc = "secondary"
        /\ wxCycle[c].primaryReqs = 1
        /\ wxCycle[c].primary.kind = "timeout"
        /\ wxCycle[c].secondaryReqs = 1

\* C4: an invocation in which both providers failed ends with error set,
\* loading false and weather as it was: weather changes only in the step in
\* which an invocation ends with a record.
C4_BothProvidersFailed ==
    /\ [][\A c \in CycleIds :
             (WxEnds(c) /\ PrimaryFailed(wxCycle'[c].primary)
                        /\ SecondaryFailed(wxCycle'[c].secondary)) =>
                 /\ wxError' # Null
                 /\ weather' = weather
                 /\ wxLoading' = FALSE]_vars
    /\ [][weather' # weather =>
             \E c \in CycleIds :
                 WxEnds(c) /\ wxCycle'[c].result \in {"primary", "secondary"}]_vars

C4_Witness ==
    \E c \in CycleIds :
        /\ wxCycle[c].pc = "done"
        /\ wxCycle[c].primary.kind = "network"
        /\ wxCycle[c].secondary.kind = "status"
        /\ weather # Null
        /\ wxError # Null
        /\ ~wxLoading

\* C6: an invocation in which WeatherAPI.com did not answer and Open-Meteo sent
\* a well-formed payload ends with no error and with a record whose airQuality
\* is 1 and whose other fields are those of the payload.
C6_SecondaryFallbackRecord ==
    [][\A c \in CycleIds :
          (WxEnds(c) /\ wxCycle'[c].primary.kind \in {"status", "network", "timeout"}
                     /\ SecondaryWellFormed(wxCycle'[c].secondary)) =>
              LET data == wxCycle'[c].secondary.data
                  rain == data.current.precipitation_probability
              IN  /\ wxError' = Null
                  /\ wxLoading' = FALSE
                  /\ weather' = Some(
                         [temperature |-> data.current.temperature_2m,
                          minTemperature |-> data.daily.temperature_2m_min.items[1],
                          maxTemperature |-> data.daily.temperature_2m_max.items[1],
                          humidity |-> data.current.relative_humidity_2m,
                          uvIndex |-> data.current.uv_index,
                          weatherCode |-> data.current.weather_code,
                          rainProbability |-> IF rain = Undefined THEN Num(0) ELSE rain,
                          airQuality |-> Num(1)])]_vars

C6_Witness ==
    \E c \in CycleIds :
        /\ wxCycle[c].pc = "done"
        /\ wxCycle[c].primary.kind = "timeout"
        /\ wxCycle[c].result = "secondary"
        /\ SecondaryWellFormed(wxCycle[c].secondary)
        /\ wxError = Null
        /\ weather # Null
        /\ weather[1].airQuality = Num(1)
        /\ weather[1].temperature = Num(14)

\* a coordinate the data model excludes
OutOfRangeOrNotFinite(lat, lon) ==
    \/ lat.kind # "num"
    \/ lon.kind # "num"
    \/ lat.v \notin -90..90
    \/ lon.v \notin -180..180

\* C7 (as claimed, the weather resolver): rendered with a coordinate out of
\* range or not finite, the weather resolver sends no provider request and ends
\* with error set.
C7_InvalidCoordinateFails ==
    [][(/\ <<latitude', longitude'>> # <<latitude, longitude>>
        /\ latitude' # Undefined
        /\ longitude' # Undefined
        /\ OutOfRangeOrNotFinite(latitude', longitude')) =>
           /\ \A c \in CycleIds : wxCycle'[c].pc \notin {"primary", "secondary"}
           /\ wxError' # Null]_vars

\* the other half of C7: no reverse-geocoding request is sent for a coordinate
\* out of range or not finite
C7_NoReverseGeocodingForInvalid ==
    \A c \in CycleIds :
        locCycle[c].pc \in {"rg", "rgWait"} =>
            ~OutOfRangeOrNotFinite(locCycle[c].latitude, locCycle[c].longitude)

\* C8 (as claimed): while no coordinate has been supplied fetchWeather sends no
\* request and leaves weather, error and loading as they were; rendered with a
\* finite coordinate in range it starts an invocation that asks a provider.
C8_FetchesForEveryValidCoordinate ==
    /\ [](latitude = Undefined /\ longitude = Undefined =>
             /\ weather = Null
             /\ wxError = Null
             /\ wxLoading = TRUE
             /\ \A c \in CycleIds : wxCycle[c] = IdleWxCycle)
    /\ [][(/\ <<latitude', longitude'>> # <<latitude, longitude>>
           /\ latitude' # Undefined
           /\ longitude' # Undefined
           /\ ~OutOfRangeOrNotFinite(latitude', longitude')) =>
              \E c \in CycleIds :
                  WxStarts(c) /\ wxCycle'[c].pc \in {"primary", "secondary"}]_vars

UsedNetwork(cyc) == cyc.geo # "none"

WeatherFields ==
    {"temperature", "minTemperature", "maxTemperature", "humidity",
     "uvIndex", "weatherCode", "rainProbability", "airQuality"}

\* every field of the record holds a number
CompleteWeather(record) ==
    /\ DOMAIN record = WeatherFields
    /\ \A f \in WeatherFields : record[f].kind = "num"

\* C13 (as claimed): every record in weather has its eight fields populated: a
\* payload that lacks an expected field makes its provider fail and never
\* gives a record with an undefined field.
C13_ExposedRecordsAreComplete ==
    weather # Null => CompleteWeather(weather[1])

\* the fields of LocationData
CompleteLocation(record) ==
    /\ DOMAIN record = {"latitude", "longitude", "displayName"}
    /\ record.latitude.kind = "num"
    /\ record.longitude.kind = "num"
    /\ record.displayName # ""

\* C14 (as claimed): weather and location, once not null, are never null
\* again, and a record held is only ever replaced by a complete record.
C14_LastKnownGoodIsKept ==
    [][/\ weather # Null =>
             /\ weather' # Null
             /\ weather' # weather => CompleteWeather(weather'[1])
       /\ location # Null =>
             /\ location' # Null
             /\ location' # location => CompleteLocation(location'[1])]_vars

\* the part of C14 that holds: neither weather nor location goes back to null,
\* and a location record is only replaced by a complete one
C14_NeverNullAgain ==
    [][/\ weather # Null => weather' # Null
       /\ location # Null =>
             /\ location' # Null
             /\ location' # location => CompleteLocation(location'[1])]_vars

(***************************************************************************)
(* Invocations that overlap.                                               *)
(***************************************************************************)
\* a request of the weather resolver, or of the location resolver, is outstanding
WxAttemptOutstanding == \E c \in CycleIds : wxCycle[c].pc \in {"primary", "secondary"}

LocAttemptOutstanding == \E c \in CycleIds : locCycle[c].pc \in {"geo", "rg", "ip"}

\* C15 (as claimed): while a request of a resolver is outstanding that
\* resolver's loading is true, also when invocations of it overlap.
C15_LoadingWhileOutstanding ==
    /\ WxAttemptOutstanding => wxLoading
    /\ LocAttemptOutstanding => locLoading

(***************************************************************************)
(* Errors and the collaborators.                                           *)
(***************************************************************************)
\* slot c holds an invocation that ended in this step
WxEnded(c) == wxCycle'[c] # wxCycle[c] /\ wxCycle'[c].pc = "done"

\* the invocation ended in the validation of the coordinates, before any request
WxValidationFailed(cyc) ==
    cyc.primaryReqs = 0 /\ cyc.secondaryReqs = 0 /\ cyc.primary.kind = "none"

\* the weather half of C17: fetchWeather ends with error set only after the
\* validation failed, or Open-Meteo failed after WeatherAPI.com was skipped or
\* failed
C17_WeatherErrorOnlyWhenExhausted ==
    [][\A c \in CycleIds :
          (WxEnded(c) /\ wxError' # Null) =>
              \/ WxValidationFailed(wxCycle'[c])
              \/ /\ wxCycle'[c].secondaryReqs = 1
                 /\ SecondaryFailed(wxCycle'[c].secondary)
                 /\ \/ wxCycle'[c].primary.kind = "skipped"
                    \/ PrimaryFailed(wxCycle'[c].primary)]_vars

\* C17 (as claimed): getLocation ends with error set only if the precise path
\* and the IP path were both attempted and failed in that invocation, whatever
\* the cache entry holds and whether or not the cache write succeeds; and
\* fetchWeather ends with error set only after validation failed or the
\* secondary provider failed.
C17_ErrorOnlyWhenSourcesExhausted ==
    /\ [][\A c \in CycleIds :
             (locCycle'[c] # locCycle[c] /\ locCycle'[c].pc = "done" /\ locError' # Null) =>
                 /\ PreciseFailed(locCycle'[c])
                 /\ locCycle'[c].ipReqs > 0
                 /\ locCycle'[c].lastIp \in IpAttemptFailures]_vars
    /\ C17_WeatherErrorOnlyWhenExhausted

\* C19 (as claimed): whether or not a telemetry call throws, an invocation
\* whose reverse geocoding succeeded ends with the precise record, without an
\* IP lookup and without error; an IP lookup that succeeded is not sent again;
\* and an invocation whose sources all failed ends with error set and loading
\* false.
C19_TelemetryDoesNotChangeOutcome ==
    /\ [](\A c \in CycleIds :
             /\ locCycle[c].lastRg = "ok" =>
                    /\ locCycle[c].ipReqs = 0
                    /\ locCycle[c].pc = "done"
                    /\ locCycle[c].result = "precise"
             /\ locCycle[c].lastIp = "ok" =>
                    /\ locCycle[c].pc = "done"
                    /\ locCycle[c].result = "ip")
    /\ [][\A c \in CycleIds :
             (LocEnds(c) /\ locCycle'[c].lastRg = "ok") =>
                 locError' = Null /\ location' # Null]_vars
    /\ [][\A c \in CycleIds :
             (LocEnds(c) /\ PreciseFailed(locCycle'[c])
                         /\ locCycle'[c].lastIp \in IpAttemptFailures) =>
                 locError' # Null /\ locLoading' = FALSE]_vars

\* slot c holds an invocation of getLocation that ended in this step
LocEnded(c) == locCycle'[c] # locCycle[c] /\ locCycle'[c].pc = "done"

TimersOf(hook) == {t \in intervals : t.hook = hook}

\* each resolver has at most one timer, and has one exactly while MainContent
\* is mounted and refreshInterval is greater than zero; that timer is the one
\* the cleanup of the effect holds, with the period of the current
\* refreshInterval and the current callback
OneTimerWhileMountedAndPositive ==
    \A hook \in HookNames :
        /\ Cardinality(TimersOf(hook)) <= 1
        /\ TimersOf(hook) # {} <=>
               (mainContent = "mounted" /\ GreaterThanZero(settings.refreshInterval))
        /\ settings.refreshInterval = Num(0) => TimersOf(hook) = {}
        /\ \A t \in TimersOf(hook) :
               /\ t.delay = IntervalDelay(settings.refreshInterval)
               /\ t.callback = CallbackOf(hook, latitude, longitude)
               /\ t.id = intervalId[hook]

\* a step in which a cycle of either resolver ends in its terminal failure
\* leaves the timers as they are
FailureKeepsTimer ==
    (\E c \in CycleIds :
         \/ LocEnded(c) /\ locCycle'[c].result = "error"
         \/ WxEnded(c) /\ wxCycle'[c].result = "error")
        => intervals' = intervals

\* C16: each resolver has at most one refresh timer; it has one exactly while
\* MainContent is mounted and refreshInterval is greater than zero, none when
\* it is 0; a change of refreshInterval or of the fetch callback replaces the
\* timer, the unmount clears it, and a terminal failure does not.
C16_RefreshTimers ==
    /\ []OneTimerWhileMountedAndPositive
    /\ [][FailureKeepsTimer]_vars

\* both resolvers have failed terminally under a changed setting, and each
\* still has its timer, with the period of that setting
C16_Witness ==
    /\ mainContent = "mounted"
    /\ settings.refreshInterval = Num(60)
    /\ locError # Null
    /\ wxError # Null
    /\ \A hook \in HookNames : Cardinality(TimersOf(hook)) = 1

\* C20: settings.refreshInterval is always an integer that is 0 or lies in
\* 1..60, whatever is passed to setRefreshInterval, after resetSettings, and
\* after the stored settings are loaded.
C20_RefreshIntervalInRange ==
    /\ settings.refreshInterval.kind = "num"
    /\ \/ settings.refreshInterval.v = 0
       \/ settings.refreshInterval.v \in 1..60

\* setRefreshInterval and resetSettings never take refreshInterval out of that
\* range: once the stored settings are loaded, a value in range stays in range
C20_SettersKeepRange ==
    [][providerMounted /\ pendingSettings = Null /\ C20_RefreshIntervalInRange
           => C20_RefreshIntervalInRange']_vars

(***************************************************************************)
(* The coordinates and the names of the records the location resolver      *)
(* exposes.                                                                *)
(***************************************************************************)
\* the answer of the IP lookup to the request of cycle c is this payload
IpAnswers(c, data) == IpResponse(c, [kind |-> "payload", data |-> data])

\* C21: an IP-lookup response is accepted exactly when its latitude and
\* longitude are finite and lie in [-90, 90] and [-180, 180], as on the
\* precise path, a latitude or longitude of 0 included; and every location
\* exposed has its coordinates in those ranges.
C21_IpValidatesAsPrecise ==
    /\ [](location # Null =>
              ~InvalidCoordinates(location[1].latitude, location[1].longitude))
    /\ [][\A c \in CycleIds, data \in IpPayloads :
              IpAnswers(c, data) =>
                  (locCycle'[c].result = "ip" <=>
                       ~InvalidCoordinates(data.latitude, data.longitude))]_vars

\* every location exposed has its coordinates in the ranges
C21_ExposedCoordinatesInRange ==
    location # Null => ~InvalidCoordinates(location[1].latitude, location[1].longitude)

\* an IP-lookup response whose coordinates are out of range or not finite is
\* never accepted
C21_IpRejectsInvalid ==
    [][\A c \in CycleIds, data \in IpPayloads :
           IpAnswers(c, data) /\ InvalidCoordinates(data.latitude, data.longitude)
               => locCycle'[c].result # "ip"]_vars

\* Reverse geocoding alone: one precise resolution whose reverse-geocode
\* request is answered by every payload over a few fragment values.
FragmentValues == {"", "Centro", "Madrid", "Spain"}

GeocodePayloads ==
    [street : FragmentValues, locality : FragmentValues, city : FragmentValues,
     principalSubdivision : FragmentValues, countryName : FragmentValues]

RgAnswers(c, data) == RgResponse(c, [kind |-> "payload", data |-> data])

NextGeocode ==
    \/ \E c \in CycleIds : LocIdle /\ location = Null /\ GetLocation(c, TRUE)
    \/ \E c \in CycleIds : GeoResult(c, [kind |-> "position", coords |-> <<Num(40), Num(-3)>>])
    \/ \E c \in CycleIds, data \in GeocodePayloads : RgAnswers(c, data)

InitGeocode == InitLocationOnly /\ geoSupported /\ cache = CacheAbsent

SpecGeocode == InitGeocode /\ [][NextGeocode]_vars

\* the fragments of a payload in the order of the name
FragmentsOf(data) ==
    <<data.street, data.locality, data.city, data.principalSubdivision, data.countryName>>

\* the first n fragments without the empty ones and without those equal to
\* one already kept
RECURSIVE KeptFragments(_, _)
KeptFragments(fragments, n) ==
    IF n = 0 THEN <<>>
    ELSE LET kept == KeptFragments(fragments, n - 1)
         IN  IF fragments[n] = "" \/ \E j \in 1..Len(kept) : kept[j] = fragments[n]
             THEN kept
             ELSE Append(kept, fragments[n])

RECURSIVE CommaJoined(_)
CommaJoined(kept) ==
    IF Len(kept) = 0 THEN ""
    ELSE IF Len(kept) = 1 THEN kept[1]
    ELSE CommaJoined(SubSeq(kept, 1, Len(kept) - 1)) \o ", " \o kept[Len(kept)]

\* C22: for every reverse-geocoding response that has a fragment, the
\* displayName of the location is its non-empty fragments street, locality,
\* city, principal subdivision, country in that order, later duplicates of an
\* earlier value removed, joined by ", ".
C22_DisplayNameOfFragments ==
    \A c \in CycleIds :
        locCycle[c].lastRg \in {"ok", "noparts"} =>
            LET kept == KeptFragments(FragmentsOf(locCycle[c].rgData), 5)
            IN  IF kept = <<>>
                THEN locCycle[c].lastRg = "noparts"
                ELSE /\ locCycle[c].result = "precise"
                     /\ location # Null
                     /\ location[1].displayName = CommaJoined(kept)

\* the scenario: {locality: Centro, city: Madrid, countryName: Spain}, and a
\* response whose duplicate is not adjacent to its first occurrence
C22_Witness ==
    /\ location # Null
    /\ location[1].displayName = "Centro, Madrid, Spain"
    /\ LocationNameOf([street |-> "", locality |-> "Centro", city |-> "Madrid",
                       principalSubdivision |-> "", countryName |-> "Spain"])
           = location[1].displayName
    /\ LocationNameOf([street |-> "Madrid", locality |-> "Centro", city |-> "Madrid",
                       principalSubdivision |-> "Spain", countryName |-> "Spain"])
           = "Madrid, Centro, Spain"

\* the text that stands for a place without a name
UnknownLocation == "Ubicacion desconocida"

\* every location exposed has a displayName
DisplayNameNeverEmpty == location # Null => location[1].displayName # ""

\* an IP-lookup answer with coordinates in range and no fragment is accepted
\* under the text for an unknown place
IpWithoutFragments ==
    \A c \in CycleIds, data \in IpPayloads :
        /\ IpAnswers(c, data)
        /\ ~InvalidCoordinates(data.latitude, data.longitude)
        /\ data.city = "" /\ data.region = "" /\ data.country_name = ""
        => /\ locCycle'[c].result = "ip"
           /\ location' = Some(LocationData(data.latitude, data.longitude, UnknownLocation))

\* a reverse-geocode answer without a fragment, for coordinates that passed
\* the range test, is accepted under the text for an unknown place
RgWithoutFragments ==
    \A c \in CycleIds :
        /\ locCycle[c].pc = "rg"
        /\ locCycle'[c] # locCycle[c]
        /\ locCycle'[c].lastRg = "noparts"
        => /\ locCycle'[c].result = "precise"
           /\ location' = Some(LocationData(locCycle[c].latitude, locCycle[c].longitude,
                                            UnknownLocation))

\* C23: every location a successful resolution produces has a non-empty
\* displayName, and when the answering source, reverse geocoding or IP lookup,
\* returns valid coordinates but no fragment, the resolution succeeds with the
\* text for an unknown place as displayName.
C23_NamedOrUnknown ==
    /\ []DisplayNameNeverEmpty
    /\ [][IpWithoutFragments]_vars
    /\ [][RgWithoutFragments]_vars

\* the parts of it that hold: the name is never empty, and the IP path
\* names an unknown place
C23_IpPathNamesUnknownPlace ==
    /\ []DisplayNameNeverEmpty
    /\ [][IpWithoutFragments]_vars

(***************************************************************************)
(* What the consumer of the hooks can call.                                *)
(***************************************************************************)
\* retry() of useWeather, called by the mounted MainContent
WeatherRetry(c) ==
    /\ mainContent = "mounted"
    /\ WxIdle
    /\ FetchWeather(c)

\* the dashboard, and a consumer that calls what the hooks return to it:
\* useWeather returns retry, useAppLocation returns no function
NextConsumer ==
    \/ NextDashboard
    \/ \E c \in CycleIds : WeatherRetry(c)

SpecConsumer == InitDashboard /\ [][NextConsumer]_vars

\* a step that starts a cycle of the location resolver, of the weather resolver
LocationCycleStarts == NextConsumer /\ \E c \in CycleIds : LocStarts(c)

WeatherCycleStarts == NextConsumer /\ \E c \in CycleIds : WxStarts(c)

\* after a failure of the weather resolver a new cycle can be started
WeatherCanBeRetried ==
    mainContent = "mounted" /\ WxIdle /\ wxError # Null => ENABLED WeatherCycleStarts

\* after a failure of the location resolver a new cycle can be started
LocationCanBeRetried ==
    mainContent = "mounted" /\ LocIdle /\ locError # Null => ENABLED LocationCycleStarts

\* C24: after a cycle of either resolver has ended in its terminal failure,
\* the consumer can start a new cycle of that resolver, also when
\* refreshInterval is 0.  Stated for the settings that are in range.
C24_RetryStartsNewCycle ==
    C20_RefreshIntervalInRange => WeatherCanBeRetried /\ LocationCanBeRetried

\* the weather resolver alone: its retry starts a new cycle whatever
\* refreshInterval is
C24_WeatherRetryStartsNewCycle == WeatherCanBeRetried

(***************************************************************************)
(* The mapping of the payload of WeatherAPI.com.                           *)
(***************************************************************************)
\* the US EPA index takes the values 1..6
EpaIndexes == 1..6

WellFormedPrimaryPayloads ==
    { [current |-> PrimaryCurrent(Num(temp), Num(60), Num(3), [code |-> Num(code)], air),
       forecast |-> ForecastOf([mintemp_c |-> Num(10), maxtemp_c |-> Num(max),
                               daily_chance_of_rain |-> Num(rain)])] :
          temp \in {-2, 15}, code \in {1, 2}, max \in {18, 25}, rain \in {0, 20},
          air \in {Undefined} \cup {[us_epa_index |-> Num(i)] : i \in EpaIndexes} }

PrimaryAnswers(c, data) == PrimaryResponse(c, [kind |-> "payload", data |-> data])

\* useWeather rendered with the coordinates of Madrid, fetchWeather called
\* again at any time, and WeatherAPI.com answering with a well-formed payload
InitPrimaryMapping == InitWeatherOnly /\ weatherApiKey = "key"

NextPrimaryMapping ==
    \/ \E c \in CycleIds : UseWeather(c, Num(40), Num(-3))
    \/ \E c \in CycleIds : FetchWeather(c)
    \/ \E c \in CycleIds, data \in WellFormedPrimaryPayloads : PrimaryAnswers(c, data)

SpecPrimaryMapping == InitPrimaryMapping /\ [][NextPrimaryMapping]_vars

\* the record the fields of a payload make
RecordOfPayload(data) ==
    [temperature |-> data.current.temp_c,
     minTemperature |-> data.forecast.forecastday.items[1].day.mintemp_c,
     maxTemperature |-> data.forecast.forecastday.items[1].day.maxtemp_c,
     humidity |-> data.current.humidity,
     uvIndex |-> data.current.uv,
     weatherCode |-> data.current.condition.code,
     rainProbability |-> data.forecast.forecastday.items[1].day.daily_chance_of_rain,
     airQuality |-> IF data.current.air_quality = Undefined
                    THEN Num(1)
                    ELSE data.current.air_quality.us_epa_index]

\* C25: the record made from a well-formed payload of the primary provider
\* depends on the payload alone: whenever such a payload is mapped, whatever
\* was mapped before, the weather is the record whose fields are copied from
\* temp_c, mintemp_c, maxtemp_c, humidity, uv, condition.code and
\* daily_chance_of_rain, with the EPA index of the payload as airQuality, or 1
\* when none is supplied; airQuality lies in 1..6.
C25_PrimaryMappingIsAFunctionOfThePayload ==
    [][\A c \in CycleIds :
           wxCycle[c].pc = "primary" /\ wxCycle'[c] # wxCycle[c] =>
               /\ wxCycle'[c].primary.data \in WellFormedPrimaryPayloads
               /\ wxCycle'[c].result = "primary"
               /\ weather' = Some(RecordOfPayload(wxCycle'[c].primary.data))
               /\ weather'[1].airQuality.v \in 1..6]_vars

\* the payload of the Madrid scenario was mapped twice, by two cycles, and
\* the weather is the record of the scenario
C25_Witness ==
    LET madrid == [current |-> PrimaryCurrent(Num(15), Num(60), Num(3), [code |-> Num(1)],
                                              Undefined),
                   forecast |-> ForecastOf([mintemp_c |-> Num(10), maxtemp_c |-> Num(18),
                                           daily_chance_of_rain |-> Num(20)])]
    IN  /\ \A c \in CycleIds :
               /\ wxCycle[c].result = "primary"
               /\ wxCycle[c].primary = [kind |-> "payload", data |-> madrid]
        /\ weather = Some([temperature |-> Num(15), minTemperature |-> Num(10),
                           maxTemperature |-> Num(18), humidity |-> Num(60),
                           uvIndex |-> Num(3), weatherCode |-> Num(1),
                           rainProbability |-> Num(20), airQuality |-> Num(1)])

(***************************************************************************)
(* The settings across page loads.                                         *)
(***************************************************************************)
\* the page is loaded again: the state of every component is built anew;
\* localStorage, the device and the clock are what they were
Reload ==
    /\ providerMounted
    /\ settings' = defaultSettings
    /\ providerMounted' = FALSE
    /\ pendingSettings' = Null
    /\ mainContent' = "loading"
    /\ intervals' = {}
    /\ intervalId' = [hook \in HookNames |-> 0]
    /\ toast' = NoToast
    /\ location' = Null
    /\ locError' = Null
    /\ locLoading' = TRUE
    /\ locCycle' = [c \in CycleIds |-> IdleLocCycle]
    /\ locLatest' = 0
    /\ latitude' = Undefined
    /\ longitude' = Undefined
    /\ weather' = Null
    /\ wxError' = Null
    /\ wxLoading' = TRUE
    /\ wxCycle' = [c \in CycleIds |-> IdleWxCycle]
    /\ wxLatest' = 0
    /\ latestVersion' = Null
    /\ isChecking' = FALSE
    /\ vcError' = Null
    /\ dismissedUpdate' = Null
    /\ vcMounted' = FALSE
    /\ effectIsChecking' = FALSE
    /\ vcCycle' = [c \in CycleIds |-> IdleVcCycle]
    /\ UNCHANGED <<now, geoSupported, cache, weatherApiKey, storedSettings>>

\* the settings over several page loads, at any time of the clock; no request
\* is answered
NextSettings ==
    \/ \E t \in Instants : AdvanceTime(t)
    \/ LoadSettings
    \/ CommitLoadedSettings
    \/ MountMainContent
    \/ \E interval \in RefreshIntervalInputs : SetRefreshInterval(interval)
    \/ ResetSettings
    \/ UnmountMainContent
    \/ Reload

SpecSettings == InitDashboard /\ [][NextSettings]_vars

\* the page is starting up: SettingsProvider has not run its effects, or the
\* update that loadSettings queued is not committed
StartingUp == ~providerMounted \/ pendingSettings # Null

\* a change made through a setter is written to the entry
SetterIsSaved ==
    ~StartingUp /\ ~StartingUp' /\ settings' # settings
        => storedSettings' = Stringify(settings')

\* what startup puts into the settings is what the entry held when the page
\* was loaded
StartupRestoresEntry ==
    /\ ~providerMounted /\ providerMounted' /\ storedSettings.kind = "object"
           /\ storedSettings.refreshInterval # Undefined
       => pendingSettings' = Some([refreshInterval |-> storedSettings.refreshInterval])
    /\ pendingSettings # Null /\ pendingSettings' = Null /\ providerMounted'
       => settings' = pendingSettings[1] /\ storedSettings' = Stringify(pendingSettings[1])

\* no step of startup puts the defaults in the place of other stored settings
StartupKeepsEntry ==
    StartingUp /\ storedSettings.kind = "object"
               /\ storedSettings.refreshInterval # Undefined
               /\ storedSettings # Stringify(defaultSettings)
        => storedSettings' # Stringify(defaultSettings)

\* C26: every change made through a setter is written to the
\* 'chronos-settings' entry; after a reload the settings are those the entry
\* held before it; and at no point of startup is the entry replaced by the
\* default settings.
C26_SettingsPersist ==
    /\ [][SetterIsSaved]_vars
    /\ [][StartupRestoresEntry]_vars
    /\ [][StartupKeepsEntry]_vars

\* the parts of it that hold: setters are saved, and startup ends with the
\* settings and the entry that were stored
C26_SavedAndRestored ==
    /\ [][SetterIsSaved]_vars
    /\ [][StartupRestoresEntry]_vars

(***************************************************************************)
(* The version check.                                                      *)
(***************************************************************************)
\* useVersionCheck alone: the effect runs, the interval and the caller call
\* checkForUpdates, the requests answer, the 10 s timer fires
InitVersionOnly == InitDashboard /\ storedSettings = NoStoredSettings

NextVersionCheck ==
    \/ \E c \in CycleIds : MountVersionCheck(c)
    \/ \E c \in CycleIds : ChangeCheckInterval(c)
    \/ \E c \in CycleIds : PeriodicCheck(c)
    \/ \E c \in CycleIds : CallerCheck(c)
    \/ \E c \in CycleIds, outcome \in FetchOutcomes(ReleasePayloads) : ReleaseResponse(c, outcome)
    \/ \E c \in CycleIds, outcome \in FetchOutcomes(PackagePayloads) : PackageResponse(c, outcome)
    \/ \E c \in CycleIds : VersionCheckTimeout(c)
    \/ DismissUpdate

SpecVersionCheck == InitVersionOnly /\ [][NextVersionCheck]_vars

\* the check of slot c ends in this step
VcEnded(c) == VcInFlight(c) /\ vcCycle'[c].pc = "done"

\* the release request failed and so did the /package.json request
BothSourcesFailed(cyc) == cyc.primary \in FetchFailures /\ cyc.fallback \in FetchFailures

\* the version a check that ended has to leave: the one it fetched, or the
\* current one when both sources failed or the answer carries no version
VersionToLeave(cyc) ==
    IF cyc.fallback = "none"
    THEN IF LatestVersionClean(cyc.releaseData) # Null
         THEN LatestVersionClean(cyc.releaseData)
         ELSE Some(currentVersionClean)
    ELSE IF cyc.fallback \in FetchFailures \/ ~VersionTruthy(cyc.packageData.version)
         THEN Some(currentVersionClean)
         ELSE Some(cyc.packageData.version)

\* when the release request fails the check goes on to /package.json, and a
\* check that ends leaves isChecking false
FallbackThenIdle(c) ==
    /\ vcCycle[c].pc = "primary" /\ vcCycle'[c].primary \in FetchFailures
           => vcCycle'[c].pc = "fallback"
    /\ VcEnded(c) => ~isChecking'

\* a check in which both sources failed leaves the current version, so no update
BothFailedNoUpdate(c) ==
    VcEnded(c) /\ BothSourcesFailed(vcCycle'[c])
        => latestVersion' = Some(currentVersionClean) /\ ~hasUpdate'

\* C27: when the release request fails or times out the check goes on to the
\* /package.json request; the step in which a check ends leaves isChecking
\* false and latestVersion holding a version: the one fetched, or the current
\* app version when both sources failed or no version could be extracted; and
\* hasUpdate is false after a check in which both sources failed.
C27_CheckLeavesAVersion ==
    [][\A c \in CycleIds :
           /\ FallbackThenIdle(c)
           /\ BothFailedNoUpdate(c)
           /\ VcEnded(c) => latestVersion' # Null /\ latestVersion' = VersionToLeave(vcCycle'[c])]_vars

\* the part of C27 about the fallback, isChecking and two failed sources
C27_FallbackAndNoUpdate ==
    [][\A c \in CycleIds : FallbackThenIdle(c) /\ BothFailedNoUpdate(c)]_vars

\* the part of C27 about the version, for the checks whose /package.json
\* answer, if any, carries a version
C27_VersionWhenAnswerHasOne ==
    [][\A c \in CycleIds :
           VcEnded(c) /\ vcCycle'[c].packageData # [version |-> Undefined]
               => latestVersion' = VersionToLeave(vcCycle'[c])]_vars

ChecksInFlight == {c \in CycleIds : VcInFlight(c)}

\* C29: at most one version check is in flight at any time, and isChecking is
\* true for as long as a check is in flight.
C29_OneCheckInFlight ==
    /\ Cardinality(ChecksInFlight) <= 1
    /\ ChecksInFlight # {} => isChecking

\* the part of C29 about the caller: checkForUpdates of the latest render
\* returns without a request while isChecking is true
C29_CallerWaits ==
    [][\A c \in CycleIds : isChecking /\ CallerCheck(c) => UNCHANGED vcVars]_vars

(***************************************************************************)
(* Invocations of one resolver that overlap: the order of their results.   *)
(***************************************************************************)
\* the coordinates useWeather is rendered with
OverlapCoords == {<<Num(40), Num(-3)>>}

\* one payload of each weather provider
OverlapPrimaryPayloads == {p \in DashboardPrimaryPayloads : p.current.temp_c = Num(22)}

OverlapSecondaryPayloads ==
    {p \in DashboardSecondaryPayloads : p.current.precipitation_probability = Num(30)}

InitOverlap == InitVersionOnly /\ cache = CacheAbsent

\* both resolvers called at any time, their requests answered by a payload or
\* by their timeout; the clock stands still
NextOverlap ==
    \/ \E c \in CycleIds, force \in BOOLEAN : GetLocation(c, force)
    \/ \E c \in CycleIds, outcome \in DashboardGeoOutcomes : GeoResult(c, outcome)
    \/ \E c \in CycleIds, outcome \in Answered(DashboardRgPayloads) : RgResponse(c, outcome)
    \/ \E c \in CycleIds, outcome \in Answered(DashboardIpPayloads) : IpResponse(c, outcome)
    \/ \E c \in CycleIds, xy \in OverlapCoords : UseWeather(c, xy[1], xy[2])
    \/ \E c \in CycleIds : FetchWeather(c)
    \/ \E c \in CycleIds, outcome \in Answered(OverlapPrimaryPayloads) : PrimaryResponse(c, outcome)
    \/ \E c \in CycleIds, outcome \in Answered(OverlapSecondaryPayloads) :
           SecondaryResponse(c, outcome)

SpecOverlap == InitOverlap /\ [][NextOverlap]_vars

\* what the invocation of slot c, ending in this step, resolved to
WeatherResolved(c) ==
    IF wxCycle'[c].result = "primary" THEN PrimaryWeather(wxCycle'[c].primary.data)
    ELSE SecondaryWeather(wxCycle'[c].secondary.data)

LocationResolved(c) ==
    IF locCycle'[c].result = "precise"
    THEN LocationData(locCycle[c].latitude, locCycle[c].longitude,
                      LocationNameOf(locCycle'[c].rgData))
    ELSE LocationData(locCycle'[c].ipData.latitude, locCycle'[c].ipData.longitude,
                      IpDisplayNameOf(locCycle'[c].ipData))

\* the step that ends an invocation of fetchWeather applies its result, whatever
\* the other invocations have done
WeatherResultApplied(c) ==
    WxEnds(c) =>
        IF wxCycle'[c].result = "error"
        THEN wxError' # Null /\ weather' = weather
        ELSE weather' = Some(WeatherResolved(c))

\* the same for getLocation: the record and its cache entry, or the error
LocationResultApplied(c) ==
    LocEnded(c) =>
        CASE locCycle'[c].result = "error" ->
                 locError' # Null /\ location' = location /\ cache' = cache
          [] locCycle'[c].result = "cache" ->
                 location' = Some(cache.data) /\ cache' = cache
          [] OTHER ->
                 /\ location' = Some(LocationResolved(c))
                 /\ cache' = CacheEntry(now, LocationResolved(c))

\* a call of a resolver leaves the invocations in flight as they are
NoCycleCancelled ==
    /\ \A c, d \in CycleIds : LocInFlight(c) /\ LocStarts(d) => locCycle'[c] = locCycle[c]
    /\ \A c, d \in CycleIds : WxInFlight(c) /\ WxStarts(d) => wxCycle'[c] = wxCycle[c]

\* C28: the results of overlapping invocations of a resolver are applied in
\* the order in which the invocations end: the step that ends an invocation
\* sets weather, or location and the cache entry, to what that invocation
\* resolved, also when an invocation that started later has ended before it;
\* and a call leaves the invocations in flight running.
C28_AppliedInCompletionOrder ==
    [][/\ \A c \in CycleIds : WeatherResultApplied(c) /\ LocationResultApplied(c)
       /\ NoCycleCancelled]_vars

\* both invocations of each resolver have ended with a record; the one that
\* started later (locLatest, wxLatest) ended first, and the state holds the
\* record of the one that started earlier
C28_Witness ==
    /\ \E e \in CycleIds :
           /\ locLatest # e /\ locLatest # 0
           /\ locCycle[e].pc = "done" /\ locCycle[e].result = "precise"
           /\ locCycle[locLatest].pc = "done" /\ locCycle[locLatest].result = "ip"
           /\ location # Null
           /\ location[1].displayName = LocationNameOf(locCycle[e].rgData)
           /\ location[1].displayName # IpDisplayNameOf(locCycle[locLatest].ipData)
           /\ cache = CacheEntry(now, location[1])
    /\ \E e \in CycleIds :
           /\ wxLatest # e /\ wxLatest # 0
           /\ wxCycle[e].pc = "done" /\ wxCycle[e].result = "secondary"
           /\ wxCycle[wxLatest].pc = "done" /\ wxCycle[wxLatest].result = "primary"
           /\ weather = Some(SecondaryWeather(wxCycle[e].secondary.data))
           /\ weather # Some(PrimaryWeather(wxCycle[wxLatest].primary.data))

(***************************************************************************)
(* What writes the cache entry of the location resolver.                   *)
(***************************************************************************)
\* the invocation of slot c ends in this step without a record from the network
EndsWithoutResolution(c) == LocEnded(c) /\ locCycle'[c].result \in {"cache", "error"}

\* the invocation of slot c ends in this step with a record from the network
EndsWithResolution(c) == LocEnded(c) /\ locCycle'[c].result \in {"precise", "ip"}

\* C30: an invocation of getLocation that is served from the cache or that
\* fails leaves the cache entry as it is; the entry changes only in the step
\* that ends an invocation with a record from the network, which stamps it
\* with the time of that step; so an invocation is served from the cache only
\* less than 10 minutes after the resolution that wrote the entry, and with
\* the record of that entry.
C30_OnlyResolutionWritesCache ==
    [][/\ \A c \in CycleIds : EndsWithoutResolution(c) => cache' = cache
       /\ cache' # cache =>
              \E c \in CycleIds : EndsWithResolution(c) /\ cache'.timestamp = now
       /\ \A c \in CycleIds :
              LocEnded(c) /\ locCycle'[c].result = "cache" =>
                  /\ now - cache.timestamp < 10 * 60 * 1000
                  /\ location' = Some(cache.data)]_vars

\* an entry written by a resolution at a time after 0 has been served later
\* by an invocation without force: its timestamp is still that of the write
C30_Witness ==
    \E c \in CycleIds :
        /\ locCycle[c].pc = "done"
        /\ locCycle[c].result = "cache"
        /\ locError = Null
        /\ cache.kind = "entry"
        /\ cache.timestamp > 0
        /\ cache.timestamp < now
        /\ now - cache.timestamp < 10 * 60 * 1000
        /\ cache.data.displayName = "Centro, Madrid, Spain"
        /\ location = Some(cache.data)
====
